---- MODULE Spec2Model ----
(***************************************************************************)
(* Model of the embedra ingestion pipeline (celery_tasks/tasks.py): the    *)
(* background jobs process_file, extract_file, embed_documents, embed_doc  *)
(* and the status reconciliation check_file_status, executed by a pool of  *)
(* workers against the relational store (files) and the vector store       *)
(* (documents).  Every database round-trip is one step of a worker; the    *)
(* delivery of a job is one step with the first statement of the job.      *)
(***************************************************************************)
EXTENDS Integers, Sequences, FiniteSets, Bags, TLC

\* ---------------------------------------------------------------- bounds
MaxChunks == 2      \* largest number of chunks a file's text splits into
MaxDocs == 3        \* cap on the rows of the vector table
MaxRedeliver == 1   \* cap on duplicate (at-least-once) deliveries
NWorkers == 2       \* size of the worker pool
NCallers == 2       \* concurrent callers of the vector-table stores
MaxCacheSize == 1   \* max_cache_size the stores are constructed with
MaxNameLen == 3     \* longest string given to the table-name validation
MaxIdLen == 2       \* longest collection id given to the table-name mapping
MaxRows == 3        \* most rows of a vector table that is searched
MaxIds == 2         \* most ids in the list of a batch delete

FileIds == {1, 2}
Workers == 1..NWorkers
DocIds == 1..MaxDocs

\* ------------------------------------------------------- enums of the code
\* schemas/file.py: the members of the FileStatus enum
FileStatus == {"UPLOADED", "CHUNKED", "CHUNK_FAILED", "EMBEDDING", "SUCCESS", "FAILED"}

\* a NULL embedding column
NULL == << >>

\* ------------------------------------------------- external collaborators
\* both files live in one collection, hence in one vector table
CollectionOf(f) == 1
TableNameOf(c) == c
\* dimensions configured in the collection's embedding_model_metadata
Dimensions(c) == c + 1
\* text of the i-th chunk of file f (split_markdown is deterministic)
ChunkText(f, i) == 10 * f + i
\* embedding_model.embed_query(text): a vector of the configured dimension
EmbedQuery(c, t) == [k \in 1..Dimensions(c) |-> (t + k) % 3]

VARIABLES
    fileStatus,   \* files.status, per file id
    chunks,       \* number of chunks the file's text splits into
    docs,         \* rows of the vector table, row id = index
    queue,        \* bag of jobs waiting in the broker
    wk,           \* per worker: the job it runs and its local variables
    last,         \* outcome of the job that finished last
    redelivered,  \* number of duplicate deliveries so far
    settled,      \* files reconciled last, with no change to them since
    tables,       \* physical vector tables: name -> dimension, 0 when absent
    store,        \* per PostgresVectorStore instance: handle cache, metadata
    call,         \* per caller of a store: the operation in progress
    ret,          \* what the store operation that ended last returned
    probe,        \* a function under test: its arguments and its result
    collections,  \* collections rows: per collection id whether the row exists
    files,        \* files rows: file id -> id of its collection, 0 when absent
    resp          \* what the service request that ended last returned

storeVars == <<tables, store, call, ret>>

svcVars == <<collections, files, resp>>

vars == <<fileStatus, chunks, docs, queue, wk, last, redelivered, settled,
          tables, store, call, ret, probe, collections, files, resp>>

Job(task, table, id) == [task |-> task, table |-> table, id |-> id]

Idle ==
    [pc |-> "idle", task |-> "none", table |-> 0, id |-> 0, file |-> 0,
     loaded |-> "none", vec |-> NULL, exc |-> "none", fstatus |-> "none",
     new |-> "none", reconciled |-> FALSE, staged |-> 0, again |-> FALSE]

\* the local state of a delivered job when it starts
Begin(j) ==
    [Idle EXCEPT !.task = j.task, !.table = j.table, !.id = j.id]

NoJob ==
    [task |-> "none", table |-> 0, id |-> 0, file |-> 0, raised |-> "none",
     reconciled |-> FALSE, wrote |-> FALSE, again |-> FALSE, n |-> 0]

\* what the task layer sees of a job with local state r when it ends; n
\* alternates, so that two equal outcomes in a row are told apart
Outcome(r, raised, wrote) ==
    [task |-> r.task, table |-> r.table, id |-> r.id, file |-> r.file,
     raised |-> raised, reconciled |-> r.reconciled, wrote |-> wrote,
     again |-> r.again, n |-> 1 - last.n]

\* the job of worker w ends: its outcome is recorded, the worker is free
FinishW(w, raised, wrote) ==
    /\ last' = Outcome(wk[w], raised, wrote)
    /\ wk' = [wk EXCEPT ![w] = Idle]

Finish(w, raised) == FinishW(w, raised, FALSE)

\* documents of a file in a table: session.query(VectorOrm).filter(file_id == f)
DocsOfFile(ds, f) == {d \in 1..Len(ds) : ds[d].file_id = f}

\* doc.metadata of a chunk of split_markdown: create_documents is given no
\* metadata, so the dictionary has no key (0 stands for an absent key)
NoMetadata == [collection_id |-> 0, file_id |-> 0]

\* VectorOrm(text=..., file_id=file.id, meta=...): status and embedding take
\* the column defaults of the model (PENDING, NULL)
NewRow(t, f, i) ==
    [table |-> t, file_id |-> f, text |-> ChunkText(f, i),
     embedding |-> NULL, status |-> "PENDING", meta |-> NoMetadata]

\* variant: the last chunk is not staged
StagedRowsButLast(t, f, n) == [i \in 1..(n - 1) |-> NewRow(t, f, i)]

\* lines 118-126: one row per chunk, in the order of the chunks
StagedRows(t, f, n) == [i \in 1..n |-> NewRow(t, f, i)]

\* ------------------------------------------------- the vector-table store
\* the table names the callers of a store pass in
TableNames == {<<"t", "1">>, <<"t", "2">>, <<"t", "-", "1">>, <<"t", "1", "\n">>}
Instances == {1, 2}
Callers == 1..NCallers

\* the dimension of the embedding model of the collection a table belongs to
DimensionOf(name) == IF name = <<"t", "2">> THEN 3 ELSE 2

IdleCall == [pc |-> "idle", op |-> "none", name |-> << >>, inst |-> 0]

\* the value of a cache miss, and of a call that returns no handle
None == [name |-> << >>, dim |-> 0]

\* db: whether the call went to the database before it returned
NoReturn == [op |-> "none", result |-> "none", value |-> None, db |-> FALSE]

\* PostgresVectorStore.__init__: an empty handle cache and empty metadata;
\* no vector table exists, no call is in progress
InitStore ==
    /\ tables = [t \in TableNames |-> 0]
    /\ store = [i \in Instances |-> [cache |-> << >>, metadata |-> {}]]
    /\ call = [c \in Callers |-> IdleCall]
    /\ ret = NoReturn

\* ids of collections; an id is a fresh uuid4, so it names at most one
\* collection ever: "unused", then "exists", then "gone"
CollectionIds == {1, 2}

\* the response of a service request: deleted and failed are the lists of a
\* DeleteResponse, paths the storage paths handed to the caller, embedded and
\* accessed tell whether the embedding model was called and whether the
\* vector store was asked for the table, ids and all are the DeleteRequest
\* that was served; n alternates from one response to the next
Response(op, id, result) ==
    [op |-> op, id |-> id, result |-> result, deleted |-> << >>,
     failed |-> << >>, paths |-> {}, embedded |-> FALSE, accessed |-> FALSE,
     ids |-> << >>, all |-> FALSE, provider |-> "", n |-> 1 - resp.n]

NoResp ==
    [op |-> "none", id |-> 0, result |-> "none", deleted |-> << >>,
     failed |-> << >>, paths |-> {}, embedded |-> FALSE, accessed |-> FALSE,
     ids |-> << >>, all |-> FALSE, provider |-> "", n |-> 0]

\* no collection and no file yet
InitService ==
    /\ collections = [c \in CollectionIds |-> "unused"]
    /\ files = [f \in FileIds |-> 0]
    /\ resp = NoResp

NoProbe == [fn |-> "none"]

\* File 1 has just been uploaded and its process_file job is in the broker.
\* File 2 was chunked earlier into one document that is still pending (its
\* embed_doc job died before it could load the row), and has no job left.
InitPipeline ==
    /\ fileStatus = [f \in FileIds |-> IF f = 1 THEN "UPLOADED" ELSE "CHUNKED"]
    /\ chunks \in {c \in [FileIds -> 0..MaxChunks] : c[2] = 1}
    /\ docs = << NewRow(TableNameOf(CollectionOf(2)), 2, 1) >>
    /\ queue = SetToBag({Job("process_file", TableNameOf(CollectionOf(1)), 1)})
    /\ wk = [w \in Workers |-> Idle]
    /\ last = NoJob
    /\ redelivered = 0
    /\ settled = {}

\* the state after construction
Init ==
    /\ InitPipeline
    /\ InitStore
    /\ InitService
    /\ probe = NoProbe

\* docs that extract_file jobs in flight may still insert
Reserved ==
    LET Busy == {v \in Workers : wk[v].pc \in {"ex_commit", "ex_except"}}
        Sum[S \in SUBSET Workers] ==
            IF S = {} THEN 0
            ELSE LET v == CHOOSE x \in S : TRUE IN chunks[wk[v].id] + Sum[S \ {v}]
    IN Len(docs) + Sum[Busy]

\* In the actions below that start a job, r is the local state of the job
\* and Q the broker queue once the job has been taken from it.

\* variant: the embedding stage is enqueued together with the extraction
process_file_fanout(w, r, Q) ==
    /\ queue' = Q (+) SetToBag({Job("extract_file", r.table, r.id),
                                Job("embed_documents", r.table, r.id)})
    /\ last' = Outcome(r, "none", FALSE)
    /\ UNCHANGED <<fileStatus, chunks, docs, wk>>

\* tasks.process_file
process_file(w, r, Q) ==
    /\ queue' = Q (+) SetToBag({Job("extract_file", r.table, r.id)})
    /\ last' = Outcome(r, "none", FALSE)
    /\ UNCHANGED <<fileStatus, chunks, docs, wk>>

\* ----------------------------------------------------------- extract_file
\* file.status = value; session.commit(): the UPDATE is emitted only for a
\* net change against the value the session loaded ("expired": nothing loaded)
WriteFileStatus(fs, f, loaded, value) ==
    IF loaded = value THEN fs ELSE [fs EXCEPT ![f] = value]

\* lines 111-126: load the file, convert, split, stage one row per chunk
extract_file(w, r, Q) ==
    /\ queue' = Q
    /\ LET f == r.id IN
       \/ \* the file cannot be loaded: the except clause finds `file` unbound
          /\ last' = Outcome(r, "UnboundLocalError", FALSE)
          /\ UNCHANGED wk
       \/ \* markitdown_converter / split_markdown / get_vector_model raises,
          \* or building a row raises after k rows were added to the session
          /\ \E k \in 0..(IF chunks[f] = 0 THEN 0 ELSE chunks[f] - 1) :
               wk' = [wk EXCEPT ![w] = [r EXCEPT !.pc = "ex_except", !.file = f,
                                                 !.loaded = fileStatus[f],
                                                 !.staged = k,
                                                 !.exc = "original"]]
          /\ UNCHANGED last
       \/ /\ wk' = [wk EXCEPT ![w] = [r EXCEPT !.pc = "ex_commit", !.file = f,
                                                !.loaded = fileStatus[f],
                                                !.staged = chunks[f]]]
          /\ UNCHANGED last
    /\ UNCHANGED <<fileStatus, chunks, docs>>

\* lines 128-129: file.status = CHUNKED; session.commit()
ex_commit(w) ==
    /\ wk[w].pc = "ex_commit"
    /\ LET f == wk[w].file IN
       \/ /\ docs' = docs \o StagedRows(wk[w].table, f, wk[w].staged)
          /\ fileStatus' = WriteFileStatus(fileStatus, f, wk[w].loaded, "CHUNKED")
          /\ wk' = [wk EXCEPT ![w].pc = "ex_enqueue"]
       \/ \* the commit fails: the transaction is rolled back
          /\ wk' = [wk EXCEPT ![w].pc = "ex_except", ![w].staged = 0,
                              ![w].loaded = "expired", ![w].exc = "original"]
          /\ UNCHANGED <<docs, fileStatus>>
    /\ UNCHANGED <<chunks, queue, last, redelivered>>

\* lines 132-134: embed_documents.apply_async(...)
ex_enqueue(w) ==
    /\ wk[w].pc = "ex_enqueue"
    /\ \/ /\ queue' = queue (+) SetToBag({Job("embed_documents", wk[w].table, wk[w].file)})
          /\ Finish(w, "none")
       \/ \* the broker is unreachable: apply_async raises inside the try
          /\ wk' = [wk EXCEPT ![w].pc = "ex_except", ![w].staged = 0,
                              ![w].loaded = "expired", ![w].exc = "original"]
          /\ UNCHANGED <<queue, last>>
    /\ UNCHANGED <<fileStatus, chunks, docs, redelivered>>

\* lines 136-139: file.status = CHUNK_FAILED; session.commit(); raise e
\* (the commit also flushes the rows still pending in the session)
ex_except(w) ==
    /\ wk[w].pc = "ex_except"
    /\ docs' = docs \o StagedRows(wk[w].table, wk[w].file, wk[w].staged)
    /\ fileStatus' = WriteFileStatus(fileStatus, wk[w].file, wk[w].loaded, "CHUNK_FAILED")
    /\ Finish(w, wk[w].exc)
    /\ UNCHANGED <<chunks, queue, redelivered>>

\* -------------------------------------------------------- embed_documents
\* variant: the documents are selected by status PENDING
PendingStatusDocs(ds, t, f) ==
    {d \in 1..Len(ds) : ds[d].table = t /\ ds[d].file_id = f /\ ds[d].status = "PENDING"}

\* lines 90-94: the documents of the file whose embedding IS NULL
NullEmbeddingDocs(ds, t, f) ==
    {d \in 1..Len(ds) : ds[d].table = t /\ ds[d].file_id = f /\ ds[d].embedding = NULL}

\* lines 82-97
embed_documents(w, r, Q) ==
    /\ queue' = Q (+) SetToBag({Job("embed_doc", r.table, d) :
                                   d \in NullEmbeddingDocs(docs, r.table, r.id)})
    /\ last' = Outcome(r, "none", FALSE)
    /\ UNCHANGED <<fileStatus, chunks, docs, wk>>

\* ------------------------------------------------------ check_file_status
\* lines 26-31: the status computed from the documents of the file
ComputeStatus(ds, S) ==
    IF \A d \in S : ds[d].status = "SUCCESS" THEN "SUCCESS"
    ELSE IF \E d \in S : ds[d].status = "FAILED" THEN "EMBEDDING_PARTIAL_FAILED"
    ELSE "EMBEDDING"

\* evaluating FileStatus.<name> raises AttributeError unless the enum of
\* schemas/file.py has a member of that name
HasMember(name) == name \in FileStatus

\* line 22: file = session.query(File).filter(File.id == file_id).one()
cfs_file(w) ==
    /\ wk[w].pc = "cfs_file"
    /\ wk' = [wk EXCEPT ![w].pc = "cfs_docs", ![w].reconciled = TRUE,
                        ![w].fstatus = fileStatus[wk[w].file],
                        ![w].again = (wk[w].file \in settled)]
    /\ UNCHANGED <<fileStatus, chunks, docs, queue, last, redelivered>>

\* lines 24-31: load the documents of the file and compute new_status
cfs_docs(w) ==
    /\ wk[w].pc = "cfs_docs"
    /\ LET S == {d \in DocsOfFile(docs, wk[w].file) : docs[d].table = wk[w].table}
           new == ComputeStatus(docs, S)
       IN IF HasMember(new)
          THEN /\ wk' = [wk EXCEPT ![w].pc = "cfs_write", ![w].new = new]
               /\ UNCHANGED last
          ELSE \* the AttributeError leaves the finally clause of embed_doc
               \* and replaces the exception that was being re-raised
               Finish(w, "AttributeError")
    /\ UNCHANGED <<fileStatus, chunks, docs, queue, redelivered>>

\* variant: the status is written back on every run
cfs_write_always(w) ==
    /\ wk[w].pc = "cfs_write"
    /\ fileStatus' = [fileStatus EXCEPT ![wk[w].file] = wk[w].new]
    /\ FinishW(w, wk[w].exc, TRUE)
    /\ UNCHANGED <<chunks, docs, queue, redelivered>>

\* lines 33-35: write only when the computed status differs
cfs_write(w) ==
    /\ wk[w].pc = "cfs_write"
    /\ fileStatus' = IF wk[w].fstatus # wk[w].new
                     THEN [fileStatus EXCEPT ![wk[w].file] = wk[w].new]
                     ELSE fileStatus
    /\ FinishW(w, wk[w].exc, wk[w].fstatus # wk[w].new)
    /\ UNCHANGED <<chunks, docs, queue, redelivered>>

\* -------------------------------------------------------------- embed_doc
\* doc.<column> = value; session.commit(): as for the file, the UPDATE
\* carries a column only for a net change against the loaded value
WriteDocStatus(ds, d, loaded, value) ==
    IF loaded = value THEN ds ELSE [ds EXCEPT ![d].status = value]

\* lines 54-68: load document, file, collection; resolve the client; embed
embed_doc(w, r, Q) ==
    /\ queue' = Q
    /\ LET d == r.id IN
       \/ \* the document cannot be loaded: `doc` is unbound in the except
          \* clause and in the finally clause, both raise UnboundLocalError
          /\ last' = Outcome(r, "UnboundLocalError", FALSE)
          /\ UNCHANGED wk
       \/ \* a later step raises: file, collection, client or embed_query
          /\ d <= Len(docs)
          /\ wk' = [wk EXCEPT ![w] = [r EXCEPT !.pc = "ed_except",
                                                !.file = docs[d].file_id,
                                                !.loaded = docs[d].status,
                                                !.exc = "original"]]
          /\ UNCHANGED last
       \/ /\ d <= Len(docs)
          /\ wk' = [wk EXCEPT ![w] = [r EXCEPT !.pc = "ed_commit",
                                                !.file = docs[d].file_id,
                                                !.loaded = docs[d].status,
                                                !.vec = EmbedQuery(CollectionOf(docs[d].file_id),
                                                                   docs[d].text)]]
          /\ UNCHANGED last
    /\ UNCHANGED <<fileStatus, chunks, docs>>

\* variant: the status is set but the vector is not stored
ed_commit_no_vector(w) ==
    /\ wk[w].pc = "ed_commit"
    /\ LET d == wk[w].id IN
       \/ /\ docs' = WriteDocStatus(docs, d, wk[w].loaded, "SUCCESS")
          /\ wk' = [wk EXCEPT ![w].pc = "cfs_file"]
       \/ /\ wk' = [wk EXCEPT ![w].pc = "ed_except",
                              ![w].loaded = "expired", ![w].exc = "original"]
          /\ UNCHANGED docs
    /\ UNCHANGED <<fileStatus, chunks, queue, last, redelivered>>

\* lines 68-70: doc.embedding = ...; doc.status = SUCCESS; session.commit()
ed_commit(w) ==
    /\ wk[w].pc = "ed_commit"
    /\ LET d == wk[w].id IN
       \/ /\ docs' = WriteDocStatus([docs EXCEPT ![d].embedding = wk[w].vec],
                                    d, wk[w].loaded, "SUCCESS")
          /\ wk' = [wk EXCEPT ![w].pc = "cfs_file"]
       \/ \* the commit fails: the transaction is rolled back
          /\ wk' = [wk EXCEPT ![w].pc = "ed_except",
                              ![w].loaded = "expired", ![w].exc = "original"]
          /\ UNCHANGED docs
    /\ UNCHANGED <<fileStatus, chunks, queue, last, redelivered>>

\* variant: the failure is written to every document of the file
ed_except_whole_file(w) ==
    /\ wk[w].pc = "ed_except"
    /\ docs' = [x \in DOMAIN docs |->
                  IF docs[x].file_id = wk[w].file
                  THEN [docs[x] EXCEPT !.status = "FAILED"]
                  ELSE docs[x]]
    /\ wk' = [wk EXCEPT ![w].pc = "cfs_file"]
    /\ UNCHANGED <<fileStatus, chunks, queue, last, redelivered>>

\* lines 71-74: doc.status = FAILED; session.commit(); raise
ed_except(w) ==
    /\ wk[w].pc = "ed_except"
    /\ docs' = WriteDocStatus(docs, wk[w].id, wk[w].loaded, "FAILED")
    /\ wk' = [wk EXCEPT ![w].pc = "cfs_file"]
    /\ UNCHANGED <<fileStatus, chunks, queue, last, redelivered>>

\* ------------------------------------------------------------ the broker
\* A free worker (the first one: the workers are alike) takes a job from the
\* broker and runs it up to its first round-trip.  Delivery is at-least-once:
\* the broker may keep the message and deliver it again.
Start(w) ==
    /\ wk[w].pc = "idle"
    /\ \A v \in Workers : v < w => wk[v].pc # "idle"
    /\ \E j \in BagToSet(queue), keep \in BOOLEAN :
        /\ keep => redelivered < MaxRedeliver
        /\ j.task = "extract_file" => Reserved + chunks[j.id] <= MaxDocs
        /\ redelivered' = IF keep THEN redelivered + 1 ELSE redelivered
        /\ LET Q == IF keep THEN queue ELSE queue (-) SetToBag({j})
               r == Begin(j)
           IN \/ j.task = "process_file" /\ process_file(w, r, Q)
              \/ j.task = "extract_file" /\ extract_file(w, r, Q)
              \/ j.task = "embed_documents" /\ embed_documents(w, r, Q)
              \/ j.task = "embed_doc" /\ embed_doc(w, r, Q)

Step(w) ==
    \/ ex_commit(w)
    \/ ex_enqueue(w)
    \/ ex_except(w)
    \/ ed_commit(w)
    \/ ed_except(w)
    \/ cfs_file(w)
    \/ cfs_docs(w)
    \/ cfs_write(w)

\* the rows of a file, as a reconciliation reads them
DocsView(ds, f) == [d \in DocsOfFile(ds, f) |-> ds[d]]

\* worker w ends a run of check_file_status in this step
ReconcileEnds(w) ==
    /\ wk[w].pc \in {"cfs_docs", "cfs_write"}
    /\ wk'[w].pc = "idle"

\* bookkeeping: a file is settled from the end of a reconciliation until its
\* status or one of its documents changes
Track(w) ==
    settled' = IF ReconcileEnds(w)
               THEN settled \cup {wk[w].file}
               ELSE {f \in settled : /\ fileStatus'[f] = fileStatus[f]
                                     /\ DocsView(docs', f) = DocsView(docs, f)}

Next ==
    /\ \E w \in Workers :
          /\ \/ Start(w)
             \/ Step(w)
          /\ Track(w)
    /\ UNCHANGED <<storeVars, probe, svcVars>>

Spec == Init /\ [][Next]_vars

\* jobs run one at a time: a job is delivered only when every worker is idle
StartSeq(w) ==
    /\ \A v \in Workers : wk[v].pc = "idle"
    /\ Start(w)

NextSeq ==
    /\ \E w \in Workers :
          /\ \/ StartSeq(w)
             \/ Step(w)
          /\ Track(w)
    /\ UNCHANGED <<storeVars, probe, svcVars>>

SpecSeq == Init /\ [][NextSeq]_vars

\* every job is delivered exactly once: the broker never redelivers
StartOnce(w) ==
    /\ Start(w)
    /\ redelivered' = redelivered

NextOnce ==
    /\ \E w \in Workers :
          /\ \/ StartOnce(w)
             \/ Step(w)
          /\ Track(w)
    /\ UNCHANGED <<storeVars, probe, svcVars>>

SpecOnce == Init /\ [][NextOnce]_vars

\* the workers keep running: a job in the broker is delivered to a free
\* worker, and a job that was started is run to its end
SpecOnceFair == SpecOnce /\ WF_vars(NextOnce)

\* ------------------------------------------------------------------ retry
\* the allow-list of statuses a retry request is accepted for
RetryableStatuses == {"CHUNK_FAILED", "FAILED", "EMBEDDING_PARTIAL_FAILED"}

\* variant: the error does not carry the allow-list
FileStatusNotRetryableError_bare(file_id, status, retryable_statuses) ==
    [name |-> "FileStatusNotRetryableError", file_id |-> file_id,
     status |-> status, retryable_statuses |-> {}]

\* exceptions/common.py: the error names the file, its status and the allow-list
FileStatusNotRetryableError(file_id, status, retryable_statuses) ==
    [name |-> "FileStatusNotRetryableError", file_id |-> file_id,
     status |-> status, retryable_statuses |-> retryable_statuses]

\* what the caller of a retry request for file f sees
RetryOutcome(f, raised, allow) ==
    [task |-> "retry_file", table |-> TableNameOf(CollectionOf(f)), id |-> f,
     file |-> f, raised |-> raised, reconciled |-> FALSE, wrote |-> FALSE,
     again |-> FALSE, n |-> 1 - last.n, retryable_statuses |-> allow]

\* A user asks to retry file f once its jobs have come to rest: the current
\* status is validated against the allow-list; an accepted request enqueues
\* the stage that failed (extraction restarts from scratch after a chunk
\* failure, the embedding stage otherwise), a rejected one changes nothing.
retry_file(f) ==
    /\ queue = EmptyBag
    /\ \A w \in Workers : wk[w].pc = "idle"
    /\ IF fileStatus[f] \in RetryableStatuses
       THEN /\ queue' = SetToBag({Job(IF fileStatus[f] = "CHUNK_FAILED"
                                      THEN "extract_file" ELSE "embed_documents",
                                      TableNameOf(CollectionOf(f)), f)})
            /\ last' = RetryOutcome(f, "none", {})
       ELSE LET e == FileStatusNotRetryableError(f, fileStatus[f], RetryableStatuses)
            IN /\ last' = RetryOutcome(f, e.name, e.retryable_statuses)
               /\ UNCHANGED queue
    /\ UNCHANGED <<fileStatus, chunks, docs, wk, redelivered, settled>>

\* the pipeline with retry requests: jobs run one at a time, delivered once
NextRetry ==
    /\ \/ \E w \in Workers :
             /\ \/ StartSeq(w) /\ redelivered' = redelivered
                \/ Step(w)
             /\ Track(w)
       \/ \E f \in FileIds : retry_file(f)
    /\ UNCHANGED <<storeVars, probe, svcVars>>

SpecRetry == Init /\ [][NextRetry]_vars

\* -------------------------------------------------- table-name validation
LowerCase ==
    {"a", "b", "c", "d", "e", "f", "g", "h", "i", "j", "k", "l", "m",
     "n", "o", "p", "q", "r", "s", "t", "u", "v", "w", "x", "y", "z"}
UpperCase ==
    {"A", "B", "C", "D", "E", "F", "G", "H", "I", "J", "K", "L", "M",
     "N", "O", "P", "Q", "R", "S", "T", "U", "V", "W", "X", "Y", "Z"}
Digits == {"0", "1", "2", "3", "4", "5", "6", "7", "8", "9"}

\* the character class [a-zA-Z0-9_]
WordChars == LowerCase \cup UpperCase \cup Digits \cup {"_"}

\* where `$` matches (no MULTILINE flag): at the end of the string, and
\* just before a newline that is the last character of the string
DollarMatchesAfter(s, k) ==
    \/ k = Len(s)
    \/ k = Len(s) - 1 /\ s[Len(s)] = "\n"

\* re.match(r"^[a-zA-Z0-9_]+$", s): one or more class characters from the
\* start of the string, then `$`
ReMatch(s) ==
    \E k \in 1..Len(s) :
        /\ \A i \in 1..k : s[i] \in WordChars
        /\ DollarMatchesAfter(s, k)

\* __validate_table_name / _validate_table_name
ValidateTableName(table_name) ==
    IF ReMatch(table_name) THEN "accepted" ELSE "rejected"

\* the characters the strings under test are made of
NameAlphabet == {"a", "Z", "7", "_", "-", " ", ";", "'", "\n"}

Strings(A, n) == UNION {[1..k -> A] : k \in 0..n}

\* the validation is given a string
InitValidate ==
    /\ InitPipeline
    /\ InitStore
    /\ InitService
    /\ probe \in {[fn |-> "validate", arg |-> s, out |-> "pending"] :
                    s \in Strings(NameAlphabet, MaxNameLen)}

\* the validation runs
validate_table_name ==
    /\ probe.fn = "validate"
    /\ probe.out = "pending"
    /\ probe' = [probe EXCEPT !.out = ValidateTableName(probe.arg)]
    /\ UNCHANGED <<fileStatus, chunks, docs, queue, wk, last, redelivered,
                   settled, storeVars, svcVars>>

SpecValidate == InitValidate /\ [][validate_table_name]_vars

\* --------------------------------------------- collection table names
\* str.replace(old, new) for one-character old and new
Replace(s, old, new) ==
    [i \in 1..Len(s) |-> IF s[i] = old THEN new ELSE s[i]]

\* f"collection_{str(collection_id).replace('-', '_')}"
generate_collection_vector_table_name(collection_id) ==
    <<"c", "o", "l", "l", "e", "c", "t", "i", "o", "n", "_">>
        \o Replace(collection_id, "-", "_")

\* the characters of the ids under test; an id is the `collection_id: str`
\* path parameter of the routes, handed on as it was received
IdAlphabet == {"a", "7", "-", "_", "{"}

\* the mapping is given the ids of two collections
InitTableName ==
    /\ InitPipeline
    /\ InitStore
    /\ InitService
    /\ probe \in {[fn |-> "table_name", arg |-> <<x, y>>, done |-> FALSE,
                   out |-> << >>] :
                    x, y \in Strings(IdAlphabet, MaxIdLen) \ {<< >>}}

\* the mapping runs on both
table_name_for ==
    /\ probe.fn = "table_name"
    /\ ~probe.done
    /\ probe' = [probe EXCEPT
                   !.done = TRUE,
                   !.out = <<generate_collection_vector_table_name(probe.arg[1]),
                             generate_collection_vector_table_name(probe.arg[2])>>]
    /\ UNCHANGED <<fileStatus, chunks, docs, queue, wk, last, redelivered,
                   settled, storeVars, svcVars>>

SpecTableName == InitTableName /\ [][table_name_for]_vars

\* ------------------------------------------------------ embedding models
\* EmbeddingModelProvider: the values of the enumeration
EmbeddingModelProvider == {"google", "azure_openai", "openai"}

\* provider names a collection may carry: the three values, a value of no
\* member, the name of a member instead of its value, and the empty string
ProviderNames == EmbeddingModelProvider \cup {"cohere", "GOOGLE", ""}

\* variant: the call of the enumeration also accepts the name of a member
IsProviderValue_or_name(value) ==
    value \in EmbeddingModelProvider \cup {"GOOGLE"}

\* EmbeddingModelProvider(value): the call of the enumeration returns for a
\* value of a member and raises ValueError for anything else
IsProviderValue(value) == value \in EmbeddingModelProvider

\* LLMSettings: each key is "" when unset, and at least one key is set
KeySettings ==
    {k \in [EmbeddingModelProvider -> {"", "key"}] :
        \E p \in EmbeddingModelProvider : k[p] # ""}

\* metadata is None or an EmbeddingModelMetadata whose endpoint is None, ""
\* or a url
Metadatas ==
    {[present |-> FALSE, endpoint |-> "None"]}
        \cup {[present |-> TRUE, endpoint |-> e] : e \in {"None", "", "url"}}

\* what the call gives: a ValueError, or the client of a provider; embedded
\* tells whether an embedding was requested from the provider on the way
Raised(exc) == [result |-> exc, client |-> "none", embedded |-> FALSE]
Client(provider) == [result |-> "ok", client |-> provider, embedded |-> FALSE]

\* variant: azure_openai is not asked for an endpoint
get_embedding_model_no_endpoint_check(provider_name, keys, metadata) ==
    IF provider_name \notin EmbeddingModelProvider THEN Raised("ValueError")
    ELSE IF keys[provider_name] = "" THEN Raised("ValueError")
    ELSE Client(provider_name)

\* get_embedding_model_by_provider_name, with the API keys of the settings
get_embedding_model_by_provider_name(provider_name, keys, metadata) ==
    IF provider_name \notin EmbeddingModelProvider THEN Raised("ValueError")
    ELSE IF provider_name = "google"
    THEN IF keys["google"] = "" THEN Raised("ValueError") ELSE Client("google")
    ELSE IF provider_name = "azure_openai"
    THEN IF ~metadata.present \/ metadata.endpoint \in {"None", ""}
         THEN Raised("ValueError")
         ELSE IF keys["azure_openai"] = "" THEN Raised("ValueError")
         ELSE Client("azure_openai")
    ELSE IF keys["openai"] = "" THEN Raised("ValueError") ELSE Client("openai")

\* a client is resolved for a provider name, the keys and a metadata
InitEmbeddingModel ==
    /\ InitPipeline
    /\ InitStore
    /\ InitService
    /\ probe \in {[fn |-> "embedding_model", provider |-> p, keys |-> k,
                   metadata |-> m, done |-> FALSE, out |-> Raised("none")] :
                    p \in ProviderNames, k \in KeySettings, m \in Metadatas}

resolve_embedding_model ==
    /\ probe.fn = "embedding_model"
    /\ ~probe.done
    /\ probe' = [probe EXCEPT
                   !.done = TRUE,
                   !.out = get_embedding_model_by_provider_name(
                               probe.provider, probe.keys, probe.metadata)]
    /\ UNCHANGED <<fileStatus, chunks, docs, queue, wk, last, redelivered,
                   settled, storeVars, svcVars>>

SpecEmbeddingModel == InitEmbeddingModel /\ [][resolve_embedding_model]_vars

\* ------------------------------------------------------ similarity search
\* Distances and similarities are in tenths: One stands for 1.0.
One == 10

\* cosine distances of the rows of the searched table to the query vector
DistLevels == {1, 3, 5, 8}

\* the threshold argument: << >> is None, <<t>> is the number t
Thresholds == {<< >>, <<3>>, <<7>>}

\* the top_k argument (the route's `k: int = 5` takes any integer)
TopKs == (-1)..MaxRows

\* the sequences that list every element of S once
Perms(S) ==
    {s \in [1..Cardinality(S) -> S] :
        \A a, b \in 1..Cardinality(S) : s[a] = s[b] => a = b}

\* lines 227-230: stmt.filter(cosine_distance(query_vector) < threshold)
Filtered(rows, threshold) ==
    {r \in DOMAIN rows : threshold = << >> \/ rows[r] < threshold[1]}

\* lines 218-225: ORDER BY cosine_distance; rows at the same distance come
\* in any order
Ordered(rows, S) ==
    {s \in Perms(S) : \A a, b \in 1..Len(s) : a < b => rows[s[a]] <= rows[s[b]]}

\* lines 235-246: the row as returned, similarity_score = 1 - cosine_distance
ResultRow(rows, r) == [id |-> r, similarity_score |-> One - rows[r]]

\* sync_similarity_search, lines 214-246: the results the query can return;
\* LIMIT 0 returns no row, a negative LIMIT is an error of the database
SimilaritySearch(rows, top_k, threshold) ==
    IF top_k < 0
    THEN {[result |-> "DBError", rows |-> << >>, executed |-> TRUE]}
    ELSE {[result |-> "ok",
           rows |-> [i \in 1..(IF top_k < Len(s) THEN top_k ELSE Len(s)) |->
                        ResultRow(rows, s[i])],
           executed |-> TRUE] : s \in Ordered(rows, Filtered(rows, threshold))}

\* a table of at most MaxRows rows is searched
InitSearch ==
    /\ InitPipeline
    /\ chunks = [f \in FileIds |-> 1]
    /\ InitStore
    /\ InitService
    /\ probe \in {[fn |-> "similarity_search", rows |-> rows, top_k |-> k,
                   threshold |-> th, done |-> FALSE,
                   out |-> [result |-> "none", rows |-> << >>,
                            executed |-> FALSE]] :
                    rows \in UNION {[1..n -> DistLevels] : n \in 0..MaxRows},
                    k \in TopKs, th \in Thresholds}

\* PostgresVectorStore.similarity_search on a table that exists
similarity_search ==
    /\ probe.fn = "similarity_search"
    /\ ~probe.done
    /\ \E out \in SimilaritySearch(probe.rows, probe.top_k, probe.threshold) :
          probe' = [probe EXCEPT !.done = TRUE, !.out = out]
    /\ UNCHANGED <<fileStatus, chunks, docs, queue, wk, last, redelivered,
                   settled, storeVars, svcVars>>

SpecSearch == InitSearch /\ [][similarity_search]_vars

\* ------------------------------------- cosine search of the repositories
\* the value of a SQL expression that is NULL: the embedding column of the
\* documents table is nullable, and `embedding <=> q` is NULL for such a row
SqlNull == 0 - 1

\* cosine distance of each row to the query vector, SqlNull for a row whose
\* embedding is NULL (a document that is pending or failed)
RowDistances == DistLevels \cup {SqlNull}

\* 1 - (embedding <=> '{query_vector}') AS cosine_similarity
CosineSimilarity(rows, r) ==
    IF rows[r] = SqlNull THEN SqlNull ELSE One - rows[r]

\* WHERE 1 - (embedding <=> '{query_vector}') >= {threshold}: a row passes
\* when the comparison is true, and NULL >= threshold is not
AboveThreshold(rows, threshold) ==
    {r \in DOMAIN rows :
        \/ threshold = << >>
        \/ /\ CosineSimilarity(rows, r) # SqlNull
           /\ CosineSimilarity(rows, r) >= threshold[1]}

\* ORDER BY cosine_similarity DESC: PostgreSQL sorts NULL as larger than any
\* value, so NULLs come first in a descending order; equal keys come in any
\* order
MayPrecede(x, y) == x = SqlNull \/ (y # SqlNull /\ x >= y)

OrderedDesc(rows, S) ==
    {s \in Perms(S) :
        \A a, b \in 1..Len(s) :
            a < b => MayPrecede(CosineSimilarity(rows, s[a]),
                                CosineSimilarity(rows, s[b]))}

\* _cosine_similarity_search_clause executed by cosine_similarity_search: the
\* results the statement can return, one dictionary per row
CosineSimilaritySearch(rows, top_k, threshold) ==
    IF top_k < 0
    THEN {[result |-> "DBError", rows |-> << >>]}
    ELSE {[result |-> "ok",
           rows |-> [i \in 1..(IF top_k < Len(s) THEN top_k ELSE Len(s)) |->
                        [id |-> s[i],
                         cosine_similarity |-> CosineSimilarity(rows, s[i])]]] :
            s \in OrderedDesc(rows, AboveThreshold(rows, threshold))}

\* a documents table of at most MaxRows rows is searched
InitCosineSearch ==
    /\ InitPipeline
    /\ chunks = [f \in FileIds |-> 1]
    /\ InitStore
    /\ InitService
    /\ probe \in {[fn |-> "cosine_similarity_search", rows |-> rows,
                   top_k |-> k, threshold |-> th, done |-> FALSE,
                   out |-> [result |-> "none", rows |-> << >>]] :
                    rows \in UNION {[1..n -> RowDistances] : n \in 0..MaxRows},
                    k \in TopKs, th \in Thresholds}

\* PgVectorRepositorySync.cosine_similarity_search on a table that exists
cosine_similarity_search ==
    /\ probe.fn = "cosine_similarity_search"
    /\ ~probe.done
    /\ \E out \in CosineSimilaritySearch(probe.rows, probe.top_k, probe.threshold) :
          probe' = [probe EXCEPT !.done = TRUE, !.out = out]
    /\ UNCHANGED <<fileStatus, chunks, docs, queue, wk, last, redelivered,
                   settled, storeVars, svcVars>>

SpecCosineSearch == InitCosineSearch /\ [][cosine_similarity_search]_vars

\* ------------------------------------------ table names in the repository
\* the operations of PgVectorRepositorySync that take a table name
RepositoryOps ==
    {"_validate_table_exists", "stage_create_table_if_not_exists",
     "stage_drop_table_if_exists", "get_documents", "stage_add_document",
     "stage_delete_documents", "cosine_similarity_search"}

\* what a call gives: its result, and the statements with the table name in
\* them that were executed on the session
Ran(result, sql) == [result |-> result, sql |-> sql]

\* _validate_table_exists: the name is validated, then looked up in
\* information_schema.tables
ValidateTableExists(name, exists) ==
    IF ValidateTableName(name) = "rejected"
    THEN Ran("TableNameValidationError", {})
    ELSE IF ~exists THEN Ran("TableNotFoundError", {"exists"})
    ELSE Ran("ok", {"exists"})

\* an operation that goes through _get_orm, hence _validate_table_exists,
\* before it executes its own statement
ThroughOrm(name, exists, statement) ==
    LET v == ValidateTableExists(name, exists)
    IN IF v.result # "ok" THEN v ELSE Ran("ok", v.sql \cup {statement})

\* an operation that validates the name and executes its DDL clause
Staged(name, statement) ==
    IF ValidateTableName(name) = "rejected"
    THEN Ran("TableNameValidationError", {})
    ELSE Ran("ok", {statement})

\* the call of one operation of the repository on a table name; exists says
\* whether a table of that name is in the database
RepositoryCall(op, name, exists) ==
    IF op = "_validate_table_exists" THEN ValidateTableExists(name, exists)
    ELSE IF op = "stage_create_table_if_not_exists" THEN Staged(name, "create")
    ELSE IF op = "stage_drop_table_if_exists" THEN Staged(name, "drop")
    ELSE IF op = "cosine_similarity_search"
    THEN \* the clause is built from the name and executed as it is
         Ran(IF exists THEN "ok" ELSE "DBError", {"search"})
    ELSE ThroughOrm(name, exists, op)

\* an operation is called with a string as its table name
InitRepository ==
    /\ InitPipeline
    /\ chunks = [f \in FileIds |-> 1]
    /\ InitStore
    /\ InitService
    /\ probe \in {[fn |-> "repository", op |-> op, name |-> s,
                   exists |-> e, done |-> FALSE, out |-> Ran("none", {})] :
                    op \in RepositoryOps, s \in Strings(NameAlphabet, MaxNameLen),
                    e \in BOOLEAN}

repository_call ==
    /\ probe.fn = "repository"
    /\ ~probe.done
    /\ probe' = [probe EXCEPT
                   !.done = TRUE,
                   !.out = RepositoryCall(probe.op, probe.name, probe.exists)]
    /\ UNCHANGED <<fileStatus, chunks, docs, queue, wk, last, redelivered,
                   settled, storeVars, svcVars>>

SpecRepository == InitRepository /\ [][repository_call]_vars

\* --------------------------------------------------------------- LRUCache
\* The cache is the OrderedDict as a sequence of entries, least recently
\* used first.
CacheKeys(c) == {c[i].key : i \in 1..Len(c)}

CacheWithout(c, k) == SelectSeq(c, LAMBDA e : e.key # k)

\* LRUCache.get: the value, or None
CacheValue(c, k) ==
    IF k \in CacheKeys(c)
    THEN (CHOOSE e \in {c[i] : i \in 1..Len(c)} : e.key = k).value
    ELSE None

\* LRUCache.get: a hit moves the key to the end
CacheTouch(c, k) ==
    IF k \in CacheKeys(c)
    THEN Append(CacheWithout(c, k), [key |-> k, value |-> CacheValue(c, k)])
    ELSE c

\* variant: the entry popped is the one at the end, popitem(last=True)
LruSet_pops_last(c, k, v, max_size) ==
    LET d == Append(CacheWithout(c, k), [key |-> k, value |-> v])
    IN IF Len(d) > max_size THEN SubSeq(d, 1, Len(d) - 1) ELSE d

\* LRUCache.set of a cache built with max_size: the key moves to the end
\* with the new value, and the first entry is popped when the size exceeds
\* max_size
LruSet(c, k, v, max_size) ==
    LET d == Append(CacheWithout(c, k), [key |-> k, value |-> v])
    IN IF Len(d) > max_size THEN Tail(d) ELSE d

\* LRUCache.set of the cache of a store
CacheSet(c, k, v) == LruSet(c, k, v, MaxCacheSize)

\* LRUCache.drop
CacheDrop(c, k) == CacheWithout(c, k)

\* ---------------------------------------------------- PostgresVectorStore
\* the mapped class VectorRow of a table: its name and vector dimension
Handle(name, dim) == [name |-> name, dim |-> dim]

\* __create_vector_table_class: the Table enters the metadata and the mapped
\* class enters the cache
CreateVectorTableClass(st, name, dim) ==
    [cache |-> CacheSet(st.cache, name, Handle(name, dim)),
     metadata |-> st.metadata \cup {name}]

\* the call of caller c returns value (result "ok") or raises result
Return(c, result, value) ==
    /\ call' = [call EXCEPT ![c] = IdleCall]
    /\ ret' = [op |-> call[c].op, result |-> result, value |-> value,
               db |-> call[c].pc # "begin"]

\* the call of caller c goes on at pc
Goto(c, pc) ==
    /\ call' = [call EXCEPT ![c].pc = pc]
    /\ UNCHANGED ret

\* create_vector_table, lines 105-114: validate, look in the cache, build and
\* cache the class; all of it runs before the first await
create_vector_table(c) ==
    /\ call[c].pc = "begin"
    /\ call[c].op = "create"
    /\ LET i == call[c].inst
           name == call[c].name
           cached == CacheValue(store[i].cache, name)
       IN IF ValidateTableName(name) = "rejected"
          THEN Return(c, "ValueError: Invalid table name", None) /\ UNCHANGED store
          ELSE IF cached # None
          THEN /\ store' = [store EXCEPT ![i].cache = CacheTouch(@, name)]
               /\ Return(c, "ok", cached)
          ELSE /\ store' = [store EXCEPT ![i] =
                               CreateVectorTableClass(@, name, DimensionOf(name))]
               /\ Goto(c, "cv_check")
    /\ UNCHANGED tables

\* lines 116-126, first round-trip: session.connection(), has_table
cv_check(c) ==
    /\ call[c].pc = "cv_check"
    /\ \/ Return(c, "DBError", None)
       \/ IF tables[call[c].name] # 0
          THEN Return(c, "ok", Handle(call[c].name, DimensionOf(call[c].name)))
          ELSE Goto(c, "cv_create")
    /\ UNCHANGED <<tables, store>>

\* lines 120-124: the table is in the metadata, so Table.create() emits a
\* plain CREATE TABLE, which fails when the table exists by now
cv_create(c) ==
    /\ call[c].pc = "cv_create"
    /\ LET name == call[c].name
       IN IF tables[name] # 0
          THEN Return(c, "DuplicateTable", None) /\ UNCHANGED tables
          ELSE /\ tables' = [tables EXCEPT ![name] = DimensionOf(name)]
               /\ Return(c, "ok", Handle(name, DimensionOf(name)))
    /\ UNCHANGED store

\* get_vector_model, lines 134-139: validate, look in the cache
get_vector_model(c) ==
    /\ call[c].pc = "begin"
    /\ call[c].op = "get"
    /\ LET i == call[c].inst
           name == call[c].name
           cached == CacheValue(store[i].cache, name)
       IN IF ValidateTableName(name) = "rejected"
          THEN Return(c, "ValueError: Invalid table name", None) /\ UNCHANGED store
          ELSE IF cached # None
          THEN /\ store' = [store EXCEPT ![i].cache = CacheTouch(@, name)]
               /\ Return(c, "ok", cached)
          ELSE Goto(c, "gv_check") /\ UNCHANGED store
    /\ UNCHANGED tables

\* lines 141-147: session.connection(), inspector.has_table
gv_check(c) ==
    /\ call[c].pc = "gv_check"
    /\ \/ Return(c, "DBError", None)
       \/ IF tables[call[c].name] = 0
          THEN Return(c, "ValueError: Table does not exist", None)
          ELSE Goto(c, "gv_columns")
    /\ UNCHANGED <<tables, store>>

\* variant: the rebuilt class is not cached
gv_columns_uncached(c) ==
    /\ call[c].pc = "gv_columns"
    /\ LET name == call[c].name
           d == tables[name]
       IN IF d = 0
          THEN Return(c, "NoSuchTableError", None)
          ELSE Return(c, "ok", Handle(name, d))
    /\ UNCHANGED <<tables, store>>

\* lines 149-162: inspector.get_columns gives the dimension of the embedding
\* column, the class is built for it and cached
gv_columns(c) ==
    /\ call[c].pc = "gv_columns"
    /\ LET i == call[c].inst
           name == call[c].name
           d == tables[name]
       IN IF d = 0
          THEN Return(c, "NoSuchTableError", None) /\ UNCHANGED store
          ELSE /\ store' = [store EXCEPT ![i] = CreateVectorTableClass(@, name, d)]
               /\ Return(c, "ok", Handle(name, d))
    /\ UNCHANGED tables

\* drop_vector_table, lines 172-178: validate, remove from the cache
drop_vector_table(c) ==
    /\ call[c].pc = "begin"
    /\ call[c].op = "drop"
    /\ LET i == call[c].inst
           name == call[c].name
           cached == CacheValue(store[i].cache, name)
       IN IF ValidateTableName(name) = "rejected"
          THEN Return(c, "ValueError: Invalid table name", None) /\ UNCHANGED store
          ELSE /\ store' = [store EXCEPT ![i].cache =
                               IF cached # None THEN CacheDrop(@, name) ELSE @]
               /\ Goto(c, "dv_check")
    /\ UNCHANGED tables

\* variant: the drop is issued without the has_table test
dv_check_unchecked(c) ==
    /\ call[c].pc = "dv_check"
    /\ \/ Return(c, "DBError", None)
       \/ Goto(c, "dv_drop")
    /\ UNCHANGED <<tables, store>>

\* lines 180-182: session.connection(), has_table
dv_check(c) ==
    /\ call[c].pc = "dv_check"
    /\ \/ Return(c, "DBError", None)
       \/ IF tables[call[c].name] = 0
          THEN Return(c, "ok", None)
          ELSE Goto(c, "dv_drop")
    /\ UNCHANGED <<tables, store>>

\* lines 184-189: Table.drop() (a plain DROP TABLE) when the table is in the
\* metadata of this instance, DROP TABLE IF EXISTS otherwise
dv_drop(c) ==
    /\ call[c].pc = "dv_drop"
    /\ LET i == call[c].inst
           name == call[c].name
       IN IF tables[name] = 0 /\ name \in store[i].metadata
          THEN Return(c, "UndefinedTable", None) /\ UNCHANGED tables
          ELSE /\ tables' = [tables EXCEPT ![name] = 0]
               /\ Return(c, "ok", None)
    /\ UNCHANGED store

\* the first idle caller (the callers are alike) calls an operation of a
\* store for a name of N
StartCall(c, N) ==
    /\ call[c].pc = "idle"
    /\ \A x \in Callers : x < c => call[x].pc # "idle"
    /\ \E op \in {"create", "get", "drop"}, name \in N, i \in Instances :
          call' = [call EXCEPT ![c] = [pc |-> "begin", op |-> op,
                                       name |-> name, inst |-> i]]
    /\ UNCHANGED <<tables, store, ret>>

StepCall(c) ==
    \/ create_vector_table(c)
    \/ cv_check(c)
    \/ cv_create(c)
    \/ get_vector_model(c)
    \/ gv_check(c)
    \/ gv_columns(c)
    \/ drop_vector_table(c)
    \/ dv_check(c)
    \/ dv_drop(c)

pipelineVars ==
    <<fileStatus, chunks, docs, queue, wk, last, redelivered, settled>>

\* the stores start empty, next to an idle pipeline
InitStoreOnly ==
    /\ Init
    /\ chunks = [f \in FileIds |-> 1]

\* the name the concurrent callers contend for
SharedNames == {<<"t", "1">>}

\* callers of the stores that work on the same table, interleaved at their
\* database round-trips
NextStore ==
    /\ \E c \in Callers : StartCall(c, SharedNames) \/ StepCall(c)
    /\ UNCHANGED <<pipelineVars, probe, svcVars>>

SpecStore == InitStoreOnly /\ [][NextStore]_vars

\* one call at a time
NextStoreSeq ==
    /\ \E c \in Callers :
          \/ StartCall(c, TableNames) /\ \A x \in Callers : call[x].pc = "idle"
          \/ StepCall(c)
    /\ UNCHANGED <<pipelineVars, probe, svcVars>>

SpecStoreSeq == InitStoreOnly /\ [][NextStoreSeq]_vars

\* ------------------------------------------- the cache under its callers
\* the values given to LRUCache.set
CacheValues(k) == {Handle(k, d) : d \in {2, 3}}

\* a call of a cache method returns value; the methods hold no suspension
\* point, so a call runs from its first to its last statement
CacheReturn(op, result, value) ==
    ret' = [op |-> op, result |-> result, value |-> value, db |-> FALSE]

\* variant: move_to_end without the membership test
lru_get_unguarded(i, k) ==
    /\ IF k \in CacheKeys(store[i].cache)
       THEN /\ store' = [store EXCEPT ![i].cache = CacheTouch(@, k)]
            /\ CacheReturn("LRUCache.get", "ok", CacheValue(store[i].cache, k))
       ELSE /\ UNCHANGED store
            /\ CacheReturn("LRUCache.get", "KeyError", None)
    /\ UNCHANGED <<tables, call>>

\* LRUCache.get
lru_get(i, k) ==
    /\ store' = [store EXCEPT ![i].cache = CacheTouch(@, k)]
    /\ CacheReturn("LRUCache.get", "ok", CacheValue(store[i].cache, k))
    /\ UNCHANGED <<tables, call>>

\* LRUCache.set
lru_set(i, k, v) ==
    /\ store' = [store EXCEPT ![i].cache = CacheSet(@, k, v)]
    /\ CacheReturn("LRUCache.set", "ok", None)
    /\ UNCHANGED <<tables, call>>

\* LRUCache.drop
lru_drop(i, k) ==
    /\ store' = [store EXCEPT ![i].cache = CacheDrop(@, k)]
    /\ CacheReturn("LRUCache.drop", "ok", None)
    /\ UNCHANGED <<tables, call>>

\* LRUCache.clear
lru_clear(i) ==
    /\ store' = [store EXCEPT ![i].cache = << >>]
    /\ CacheReturn("LRUCache.clear", "ok", None)
    /\ UNCHANGED <<tables, call>>

\* the callers of a process issue cache operations in any order
NextCache ==
    /\ \E i \in Instances :
          \/ \E k \in TableNames : lru_get(i, k)
          \/ \E k \in TableNames : \E v \in CacheValues(k) : lru_set(i, k, v)
          \/ \E k \in TableNames : lru_drop(i, k)
          \/ lru_clear(i)
    /\ UNCHANGED <<fileStatus, chunks, docs, queue, wk, last, redelivered,
                   settled, probe, svcVars>>

\* the process at start: an empty database, no job in the broker
InitServing ==
    /\ InitStore
    /\ InitService
    /\ probe = NoProbe
    /\ fileStatus = [f \in FileIds |-> "UPLOADED"]
    /\ chunks = [f \in FileIds |-> 1]
    /\ docs = << >>
    /\ queue = EmptyBag
    /\ wk = [w \in Workers |-> Idle]
    /\ last = NoJob
    /\ redelivered = 0
    /\ settled = {}

SpecCache == InitServing /\ [][NextCache]_vars

\* ------------------------------------------------- one LRUCache by itself
\* the largest max_size a cache under test is built with
MaxSize == 2

\* the cache after LRUCache(max_size). touched is the history the program
\* does not keep: the keys in the order of their last successful get or set;
\* op, key, arg and out describe the last call, prev is the call before it
NewCache(max_size) ==
    [fn |-> "LRUCache", max_size |-> max_size, cache |-> << >>,
     touched |-> << >>, prev |-> "none", op |-> "none", key |-> << >>,
     arg |-> None, out |-> None]

InitLRUCache ==
    /\ InitPipeline
    /\ InitStore
    /\ InitService
    /\ probe \in {NewCache(m) : m \in 0..MaxSize}

\* k becomes the key touched last
Touch(h, k) == Append(SelectSeq(h, LAMBDA x : x # k), k)

\* what a call leaves alone
OnlyProbe ==
    UNCHANGED <<fileStatus, chunks, docs, queue, wk, last, redelivered,
                settled, storeVars, svcVars>>

\* variant: a hit returns the value and leaves the order alone
LRUCache_get_no_move(k) ==
    /\ probe' = [probe EXCEPT
                   !.touched = IF k \in CacheKeys(probe.cache)
                               THEN Touch(@, k) ELSE @,
                   !.prev = probe.op, !.op = "get", !.key = k, !.arg = None,
                   !.out = CacheValue(probe.cache, k)]
    /\ OnlyProbe

LRUCache_get(k) ==
    /\ probe' = [probe EXCEPT
                   !.cache = CacheTouch(@, k),
                   !.touched = IF k \in CacheKeys(probe.cache)
                               THEN Touch(@, k) ELSE @,
                   !.prev = probe.op, !.op = "get", !.key = k, !.arg = None,
                   !.out = CacheValue(probe.cache, k)]
    /\ OnlyProbe

LRUCache_set(k, v) ==
    /\ probe' = [probe EXCEPT
                   !.cache = LruSet(@, k, v, probe.max_size),
                   !.touched = Touch(@, k), !.prev = probe.op,
                   !.op = "set", !.key = k, !.arg = v, !.out = None]
    /\ OnlyProbe

LRUCache_drop(k) ==
    /\ probe' = [probe EXCEPT
                   !.cache = CacheDrop(@, k), !.prev = probe.op,
                   !.op = "drop", !.key = k, !.arg = None, !.out = None]
    /\ OnlyProbe

LRUCache_clear ==
    /\ probe' = [probe EXCEPT
                   !.cache = << >>, !.prev = probe.op,
                   !.op = "clear", !.key = << >>, !.arg = None, !.out = None]
    /\ OnlyProbe

NextLRUCache ==
    \/ \E k \in TableNames : LRUCache_get(k)
    \/ \E k \in TableNames : \E v \in CacheValues(k) : LRUCache_set(k, v)
    \/ \E k \in TableNames : LRUCache_drop(k)
    \/ LRUCache_clear

SpecLRUCache == InitLRUCache /\ [][NextLRUCache]_vars

\* ------------------------------------------------------ CollectionService
\* A store operation run from its first to its last step with no other call
\* of a store in between; fail says whether its database round-trip raises.
Done(st, tb, result) == [store |-> st, tables |-> tb, result |-> result]

\* create_vector_table run to completion
CreateVectorTable(st, tb, name, dim, fail) ==
    IF ValidateTableName(name) = "rejected"
    THEN Done(st, tb, "ValueError: Invalid table name")
    ELSE IF CacheValue(st.cache, name) # None
    THEN Done([st EXCEPT !.cache = CacheTouch(@, name)], tb, "ok")
    ELSE LET built == CreateVectorTableClass(st, name, dim)
         IN IF fail THEN Done(built, tb, "DBError")
            ELSE IF tb[name] # 0 THEN Done(built, tb, "ok")
            ELSE Done(built, [tb EXCEPT ![name] = dim], "ok")

\* get_vector_model run to completion
GetVectorModel(st, tb, name, fail) ==
    IF ValidateTableName(name) = "rejected"
    THEN Done(st, tb, "ValueError: Invalid table name")
    ELSE IF CacheValue(st.cache, name) # None
    THEN Done([st EXCEPT !.cache = CacheTouch(@, name)], tb, "ok")
    ELSE IF fail THEN Done(st, tb, "DBError")
    ELSE IF tb[name] = 0 THEN Done(st, tb, "ValueError: Table does not exist")
    ELSE Done(CreateVectorTableClass(st, name, tb[name]), tb, "ok")

\* drop_vector_table run to completion
DropVectorTable(st, tb, name, fail) ==
    IF ValidateTableName(name) = "rejected"
    THEN Done(st, tb, "ValueError: Invalid table name")
    ELSE LET evicted == [st EXCEPT !.cache = CacheDrop(@, name)]
         IN IF fail THEN Done(evicted, tb, "DBError")
            ELSE Done(evicted, [tb EXCEPT ![name] = 0], "ok")

\* the store of the process that serves the requests, and the store of
\* another process (a worker)
ApiStore == 1
OtherStore == 2

\* __generate_collection_vector_table_name on the ids of the model
CollectionTable(c) == IF c = 1 THEN <<"t", "1">> ELSE <<"t", "2">>

\* File.path of a file saved for a collection: docs/{collection_id}/...
PathOf(c, f) == <<c, f>>

\* the rows a request leaves unchanged
NoRowChange == UNCHANGED <<collections, files, tables, docs>>

\* what the requests of the service leave alone: the jobs and their workers
jobVars == <<fileStatus, chunks, queue, wk, last, redelivered, settled>>

\* the collection a vector table belongs to
CollectionOfTable(name) == CHOOSE c \in CollectionIds : CollectionTable(c) = name

\* the rows that are left when the table of collection c is dropped
RowsOutside(ds, c) == SelectSeq(ds, LAMBDA r : r.table # TableNameOf(c))

\* delete(VectorModel).where(meta["collection_id"] == c, meta["file_id"] == f):
\* the rows of the table of c that are left
RowsWithoutFile(ds, c, f) ==
    SelectSeq(ds, LAMBDA r : ~(/\ r.table = TableNameOf(c)
                               /\ r.meta.collection_id = c
                               /\ r.meta.file_id = f))

\* delete(VectorModel).where(meta["collection_id"] == c)
RowsWithoutCollection(ds, c) ==
    SelectSeq(ds, LAMBDA r : ~(r.table = TableNameOf(c) /\ r.meta.collection_id = c))

\* VectorStore.create_vector_table(vector_table_name, session) as the service
\* calls it: the table of the collection is created if it is absent
VectorStoreCreate(st, tb, name, fail) ==
    CreateVectorTable(st, tb, name, DimensionOf(name), fail)

\* VectorStore.get_vector_model(table_name=...) as the service calls it, with
\* no session: the handle of the table, or an error when it cannot be resolved
VectorStoreResolve(st, tb, name, fail) == GetVectorModel(st, tb, name, fail)

\* variant: the Collection row stays when the table could not be created
create_collection_keeps_row(c, provider) ==
    /\ collections[c] = "unused"
    /\ IF ~IsProviderValue(provider)
       THEN /\ resp' = [Response("create_collection", c, "ValueError")
                           EXCEPT !.provider = provider]
            /\ UNCHANGED <<collections, tables, store>>
       ELSE \E fail \in BOOLEAN :
          LET r == VectorStoreCreate(store[ApiStore], tables, CollectionTable(c), fail)
          IN /\ store' = [store EXCEPT ![ApiStore] = r.store]
             /\ collections' = [collections EXCEPT ![c] = "exists"]
             /\ tables' = r.tables
             /\ resp' = [Response("create_collection", c, r.result)
                            EXCEPT !.provider = provider]
    /\ UNCHANGED <<files, docs>>

\* create_collection with the commit or rollback of get_db_session: the
\* provider of the request is validated first and a ValueError ends the
\* request with nothing added; otherwise the row is added and flushed, the
\* table is created, and both are committed; when the store raises, the
\* transaction is rolled back
create_collection(c, provider) ==
    /\ collections[c] = "unused"
    /\ IF ~IsProviderValue(provider)
       THEN /\ resp' = [Response("create_collection", c, "ValueError")
                           EXCEPT !.provider = provider]
            /\ UNCHANGED <<collections, tables, store>>
       ELSE \E fail \in BOOLEAN :
          LET r == VectorStoreCreate(store[ApiStore], tables, CollectionTable(c), fail)
          IN /\ store' = [store EXCEPT ![ApiStore] = r.store]
             /\ IF r.result = "ok"
                THEN /\ collections' = [collections EXCEPT ![c] = "exists"]
                     /\ tables' = r.tables
                ELSE /\ collections' = [collections EXCEPT ![c] = "gone"]
                     /\ UNCHANGED tables
             /\ resp' = [Response("create_collection", c, r.result)
                            EXCEPT !.provider = provider]
    /\ UNCHANGED <<files, docs>>

\* upload_file_to_collection, the rows only: the File row of a new file
upload_file_to_collection(c, f) ==
    /\ files[f] = 0
    /\ IF collections[c] # "exists"
       THEN /\ resp' = Response("upload_file_to_collection", c,
                                "CollectionNotFoundException")
            /\ UNCHANGED files
       ELSE /\ files' = [files EXCEPT ![f] = c]
            /\ resp' = Response("upload_file_to_collection", c, "ok")
    /\ UNCHANGED <<collections, tables, store, docs>>

\* delete_collection with the commit or rollback of get_db_session
delete_collection(c) ==
    IF collections[c] # "exists"
    THEN /\ resp' = Response("delete_collection", c, "CollectionNotFoundException")
         /\ NoRowChange
         /\ UNCHANGED store
    ELSE \E fail \in BOOLEAN :
            LET r == DropVectorTable(store[ApiStore], tables, CollectionTable(c), fail)
                file_paths == {PathOf(c, f) : f \in {x \in FileIds : files[x] = c}}
            IN /\ store' = [store EXCEPT ![ApiStore] = r.store]
               /\ IF r.result = "ok"
                  THEN /\ collections' = [collections EXCEPT ![c] = "gone"]
                       /\ files' = [f \in FileIds |->
                                       IF files[f] = c THEN 0 ELSE files[f]]
                       /\ tables' = r.tables
                       /\ docs' = RowsOutside(docs, c)
                       /\ resp' = [Response("delete_collection", c, "ok")
                                      EXCEPT !.paths = file_paths]
                  ELSE /\ NoRowChange
                       /\ resp' = Response("delete_collection", c, r.result)

\* variant: the embedding model is called before the collection is looked up
svc_similarity_search_embeds_first(c) ==
    IF collections[c] # "exists"
    THEN /\ resp' = [Response("similarity_search", c, "CollectionNotFoundException")
                        EXCEPT !.embedded = TRUE]
         /\ NoRowChange
         /\ UNCHANGED store
    ELSE \E fail \in BOOLEAN :
            LET name == CollectionTable(c)
                r == GetVectorModel(store[ApiStore], tables, name, fail)
                result ==
                    IF r.result = "DBError" THEN "RuntimeError"
                    ELSE IF r.result # "ok" THEN "ValueError"
                    ELSE IF tables[name] = 0 THEN "RuntimeError"
                    ELSE "ok"
            IN /\ store' = [store EXCEPT ![ApiStore] = r.store]
               /\ resp' = [Response("similarity_search", c, result)
                              EXCEPT !.embedded = TRUE, !.accessed = TRUE]
               /\ NoRowChange

\* CollectionService.similarity_search: the collection is looked up, the
\* query is embedded, the store resolves the table and runs the query; a
\* ValueError of the store is raised as ValueError, any other exception
\* (the database failing, the query on a table that is gone) as RuntimeError
svc_similarity_search(c) ==
    IF collections[c] # "exists"
    THEN /\ resp' = Response("similarity_search", c, "CollectionNotFoundException")
         /\ NoRowChange
         /\ UNCHANGED store
    ELSE \E fail \in BOOLEAN :
            LET name == CollectionTable(c)
                r == GetVectorModel(store[ApiStore], tables, name, fail)
                result ==
                    IF r.result = "DBError" THEN "RuntimeError"
                    ELSE IF r.result # "ok" THEN "ValueError"
                    ELSE IF tables[name] = 0 THEN "RuntimeError"
                    ELSE "ok"
            IN /\ store' = [store EXCEPT ![ApiStore] = r.store]
               /\ resp' = [Response("similarity_search", c, result)
                              EXCEPT !.embedded = TRUE, !.accessed = TRUE]
               /\ NoRowChange

\* the elements of a set of file ids in ascending order
Ascending(S) == CHOOSE s \in Perms(S) : \A a, b \in 1..Len(s) : a < b => s[a] < s[b]

\* the outcome of one id of a batch delete
Failure(id, message) == [id |-> id, message |-> message]

RECURSIVE DeleteEach(_, _, _, _, _, _)
\* the loop over file_ids from position i on: each id in its own nested
\* transaction. fl[i] says whether a statement for the i-th id fails in the
\* database; the delete of the vectors also fails when the table is gone.
\* acc holds the files rows and the lists built so far.
DeleteEach(c, ids, fl, tb, i, acc) ==
    IF i > Len(ids) THEN acc
    ELSE LET id == ids[i]
             next ==
                 IF fl[i]
                 THEN [acc EXCEPT !.failed = Append(@, Failure(id, "Database error"))]
                 ELSE IF acc.files[id] # c
                 THEN [acc EXCEPT !.failed = Append(@, Failure(id, "not found"))]
                 ELSE IF tb[CollectionTable(c)] = 0
                 THEN [acc EXCEPT !.failed = Append(@, Failure(id, "Database error"))]
                 ELSE [acc EXCEPT !.files[id] = 0,
                                  !.docs = RowsWithoutFile(@, c, id),
                                  !.deleted = Append(@, id),
                                  !.paths = @ \cup {PathOf(c, id)}]
         IN DeleteEach(c, ids, fl, tb, i + 1, next)

\* variant: the response lists the deleted ids only
DeleteResponse_deleted_only(c, out) ==
    [Response("delete_collection_files", c, "ok")
        EXCEPT !.deleted = out.deleted, !.paths = out.paths]

\* the response of a batch delete
DeleteResponse(c, out) ==
    [Response("delete_collection_files", c, "ok")
        EXCEPT !.deleted = out.deleted, !.failed = out.failed,
               !.paths = out.paths]

\* the response to the request DeleteRequest(ids, all)
Served(r, ids, all) == [r EXCEPT !.ids = ids, !.all = all]

\* the request ends with an exception
Refused(c, ids, all, exc) ==
    Served(Response("delete_collection_files", c, exc), ids, all)

\* variant: no nested transaction, a failing id rolls the request back
delete_collection_files_one_transaction(c, ids, all) ==
    /\ collections[c] = "exists"
    /\ ids # << >>
    /\ ~(all /\ \E f \in FileIds : files[f] = c)
    /\ CacheValue(store[ApiStore].cache, CollectionTable(c)) # None
    /\ \E fl \in [1..Len(ids) -> BOOLEAN] :
          LET out == DeleteEach(c, ids, fl, tables, 1,
                        [files |-> files, docs |-> docs,
                         deleted |-> << >>, failed |-> << >>, paths |-> {}])
          IN /\ files' = IF out.failed # << >> THEN files ELSE out.files
             /\ docs' = IF out.failed # << >> THEN docs ELSE out.docs
             /\ resp' = Served(DeleteResponse(c, out), ids, all)
    /\ UNCHANGED <<collections, tables, store>>

\* delete_collection_files with the commit or rollback of get_db_session
delete_collection_files(c, ids, all) ==
    IF collections[c] # "exists"
    THEN /\ resp' = Refused(c, ids, all, "CollectionNotFoundException")
         /\ NoRowChange
         /\ UNCHANGED store
    ELSE IF ids = << >> /\ ~all
    THEN /\ resp' = Refused(c, ids, all, "CollectionServiceException")
         /\ NoRowChange
         /\ UNCHANGED store
    ELSE \E fail \in BOOLEAN :
            LET name == CollectionTable(c)
                r == VectorStoreResolve(store[ApiStore], tables, name, fail)
                mine == {f \in FileIds : files[f] = c}
            IN /\ store' = [store EXCEPT ![ApiStore] = r.store]
               /\ UNCHANGED <<collections, tables>>
               /\ IF r.result # "ok"
                  THEN /\ resp' = Refused(c, ids, all, r.result)
                       /\ UNCHANGED <<files, docs>>
                  ELSE IF all /\ mine # {}
                  THEN IF tables[name] = 0
                       THEN /\ resp' = Refused(c, ids, all, "DBError")
                            /\ UNCHANGED <<files, docs>>
                       ELSE /\ files' = [f \in FileIds |->
                                            IF f \in mine THEN 0 ELSE files[f]]
                            /\ docs' = RowsWithoutCollection(docs, c)
                            /\ resp' = Served(
                                   [Response("delete_collection_files", c, "ok")
                                       EXCEPT !.deleted = Ascending(mine),
                                              !.paths = {PathOf(c, f) : f \in mine}],
                                   ids, all)
                  ELSE \E fl \in [1..Len(ids) -> BOOLEAN] :
                          LET out == DeleteEach(c, ids, fl, tables, 1,
                                        [files |-> files, docs |-> docs,
                                         deleted |-> << >>, failed |-> << >>,
                                         paths |-> {}])
                          IN /\ files' = out.files
                             /\ docs' = out.docs
                             /\ resp' = Served(DeleteResponse(c, out), ids, all)

\* another process resolves a table through its own store
other_get_vector_model(name) ==
    /\ \E fail \in BOOLEAN :
          store' = [store EXCEPT ![OtherStore] =
                       GetVectorModel(@, tables, name, fail).store]
    /\ UNCHANGED <<collections, files, tables, docs, resp>>

\* another process drops a table through its own store
other_drop_vector_table(name) ==
    /\ \E fail \in BOOLEAN :
          LET r == DropVectorTable(store[OtherStore], tables, name, fail)
          IN /\ store' = [store EXCEPT ![OtherStore] = r.store]
             /\ tables' = r.tables
             /\ docs' = IF r.result = "ok"
                        THEN RowsOutside(docs, CollectionOfTable(name))
                        ELSE docs
    /\ UNCHANGED <<collections, files, resp>>

\* extract_file run from its first to its last step for a file of collection
\* c that has no document yet: one PENDING row per chunk of the file
extract_file_staged(c, f) ==
    /\ files[f] = c
    /\ tables[CollectionTable(c)] # 0
    /\ DocsOfFile(docs, f) = {}
    /\ \E n \in 1..MaxChunks :
          /\ Len(docs) + n <= MaxDocs
          /\ docs' = docs \o StagedRows(TableNameOf(c), f, n)
    /\ UNCHANGED <<collections, files, tables, store, resp>>

\* the requests of the service, one at a time, next to another process
NextService ==
    /\ \/ \E c \in CollectionIds, p \in ProviderNames : create_collection(c, p)
       \/ \E c \in CollectionIds, f \in FileIds : upload_file_to_collection(c, f)
       \/ \E c \in CollectionIds : delete_collection(c)
       \/ \E c \in CollectionIds : svc_similarity_search(c)
       \/ \E c \in CollectionIds : other_get_vector_model(CollectionTable(c))
       \/ \E c \in CollectionIds : other_drop_vector_table(CollectionTable(c))
    /\ UNCHANGED <<jobVars, probe, call, ret>>

SpecService == InitServing /\ [][NextService]_vars

\* batch deletes of files by ids, in collections that are filled by uploads
NextBatch ==
    /\ \/ \E c \in CollectionIds, p \in ProviderNames : create_collection(c, p)
       \/ \E c \in CollectionIds, f \in FileIds : upload_file_to_collection(c, f)
       \/ \E c \in CollectionIds, ids \in Strings(FileIds, MaxIds), all \in BOOLEAN :
             delete_collection_files(c, ids, all)
    /\ UNCHANGED <<jobVars, probe, call, ret>>

SpecBatch == InitServing /\ [][NextBatch]_vars

\* the requests that delete one file or all files of a collection
DeleteRequests == {<<ids, FALSE>> : ids \in {<<f>> : f \in FileIds}} \cup {<< << >>, TRUE>>}

\* files with documents staged by the pipeline, and the deletes of files
NextDocs ==
    /\ \/ \E c \in CollectionIds, p \in ProviderNames : create_collection(c, p)
       \/ \E c \in CollectionIds, f \in FileIds : upload_file_to_collection(c, f)
       \/ \E c \in CollectionIds, f \in FileIds : extract_file_staged(c, f)
       \/ \E c \in CollectionIds, rq \in DeleteRequests :
             delete_collection_files(c, rq[1], rq[2])
    /\ UNCHANGED <<jobVars, probe, call, ret>>

SpecDocs == InitServing /\ [][NextDocs]_vars

\* ====================================================== checked properties
\* a job of the given task ends in this step; its outcome is last'
JobEnds(task) == last' # last /\ last'.task = task

\* the file status the specification attaches to a set of document statuses
Aggregate(ds, f) == ComputeStatus(ds, DocsOfFile(ds, f))

\* C1: when a run of check_file_status returns, File.status is the status
\* computed from the documents of the file: SUCCESS if all are SUCCESS, else
\* EMBEDDING_PARTIAL_FAILED if one is FAILED, else EMBEDDING.
C1_ReconcileSetsComputedStatus ==
    [][\A w \in Workers :
          ReconcileEnds(w) =>
              fileStatus'[wk[w].file] = Aggregate(docs', wk[w].file)]_vars

\* C2: once every job has finished, each delivered once, the status of a file
\* whose documents all reached a final status is the aggregate of these
\* statuses, whatever the interleaving of its embed_doc jobs was.
AllJobsFinished ==
    /\ queue = EmptyBag
    /\ \A w \in Workers : wk[w].pc = "idle"

C2_FinalStatusIsAggregate ==
    (AllJobsFinished /\ redelivered = 0) =>
        \A f \in FileIds :
            (/\ DocsOfFile(docs, f) # {}
             /\ \A d \in DocsOfFile(docs, f) : docs[d].status # "PENDING")
            => fileStatus[f] = Aggregate(docs, f)

\* C3: a run of check_file_status that follows another run for the same file,
\* with no change to the file or its documents in between, leaves File.status
\* as it is and writes nothing.
C3_ReconcileIdempotent ==
    [][\A w \in Workers :
          (ReconcileEnds(w) /\ wk[w].again) =>
              /\ fileStatus' = fileStatus
              /\ ~last'.wrote]_vars

C3_Witness ==
    /\ last.task = "embed_doc"
    /\ last.reconciled
    /\ last.again
    /\ ~last.wrote
    /\ last.raised = "none"
    /\ last.file \in settled
    /\ fileStatus[last.file] = "SUCCESS"

\* C4: every execution of embed_doc runs the reconciliation before it ends.
C4_AlwaysReconciles ==
    last.task = "embed_doc" => last.reconciled

\* C5: an execution of embed_doc that raises has persisted status FAILED with
\* a null embedding for its document, and raises the original exception.
C5_FailurePersistedAndReraised ==
    [][(JobEnds("embed_doc") /\ last'.raised # "none") =>
          /\ last'.raised = "original"
          /\ last'.id <= Len(docs')
          /\ docs'[last'.id].status = "FAILED"
          /\ docs'[last'.id].embedding = NULL]_vars

EmbedDocStep(d) ==
    \/ JobEnds("embed_doc") /\ last'.id = d
    \/ \E w \in Workers :
          /\ wk'[w] # wk[w]
          /\ \/ wk[w].task = "embed_doc" /\ wk[w].id = d
             \/ wk'[w].task = "embed_doc" /\ wk'[w].id = d

\* C7: a step of an embed_doc job for document d changes nothing but the
\* embedding and the status of d: no document appears or disappears, every
\* other document keeps all its columns, and d keeps its text and owner.
C7_EmbedDocFrame ==
    [][\A d \in DocIds :
          EmbedDocStep(d) =>
              /\ Len(docs') = Len(docs)
              /\ \A x \in 1..Len(docs) :
                    /\ x # d => docs'[x] = docs[x]
                    /\ docs'[x].text = docs[x].text
                    /\ docs'[x].file_id = docs[x].file_id
                    /\ docs'[x].table = docs[x].table]_vars

\* an embed_doc job failed for a document that has a pending sibling, next
\* to the pending document of the other file
C7_Witness ==
    /\ last.task = "embed_doc"
    /\ last.raised # "none"
    /\ last.reconciled
    /\ docs[last.id].status = "FAILED"
    /\ \E x \in DocsOfFile(docs, last.file) : x # last.id /\ docs[x].status = "PENDING"
    /\ \E x \in 1..Len(docs) : docs[x].file_id # last.file /\ docs[x].status = "PENDING"

\* C8: embed_documents(file) enqueues exactly one embed_doc job for every
\* document of the file whose embedding is null, and no other job.
C8_DispatchExactlyNullEmbeddings ==
    [][JobEnds("embed_documents") =>
          LET own == Job("embed_documents", last'.table, last'.id)
              Jobs == BagToSet(queue) \cup BagToSet(queue') \cup
                          {Job("embed_doc", last'.table, x) : x \in 1..Len(docs)}
          IN /\ CopiesIn(own, queue') - CopiesIn(own, queue) \in {-1, 0}
             /\ \A j \in Jobs \ {own} :
                   CopiesIn(j, queue') - CopiesIn(j, queue) =
                       IF /\ j.task = "embed_doc"
                          /\ j.table = last'.table
                          /\ j.id \in 1..Len(docs)
                          /\ docs[j.id].file_id = last'.id
                          /\ docs[j.id].embedding = NULL
                       THEN 1 ELSE 0]_vars

\* embed_documents ran again for a file with an embedded and a failed document
C8_Witness ==
    /\ last.task = "embed_documents"
    /\ \E x \in DocsOfFile(docs, last.id) :
          /\ docs[x].status = "FAILED" /\ docs[x].embedding = NULL
          /\ BagIn(Job("embed_doc", last.table, x), queue)
    /\ \E x \in DocsOfFile(docs, last.id) :
          /\ docs[x].embedding # NULL
          /\ ~BagIn(Job("embed_doc", last.table, x), queue)
    /\ \E x \in 1..Len(docs) :
          /\ docs[x].file_id # last.id /\ docs[x].embedding = NULL
          /\ ~BagIn(Job("embed_doc", last.table, x), queue)

\* C9: a job that is delivered twice creates no duplicate document and turns
\* no SUCCESS document into a non-SUCCESS one.
NoDuplicateDocs(ds) ==
    \A x, y \in 1..Len(ds) :
        (x # y /\ ds[x].table = ds[y].table /\ ds[x].file_id = ds[y].file_id)
            => ds[x].text # ds[y].text

C9_RedeliveryHarmless ==
    [][/\ NoDuplicateDocs(docs')
       /\ \A x \in 1..Len(docs) :
             docs[x].status = "SUCCESS" => docs'[x].status = "SUCCESS"]_vars

\* C10: the commit of extract_file persists exactly one pending document with
\* a null embedding per chunk and sets File.status to CHUNKED; a successful
\* execution then enqueues exactly one embed_documents job for the file.
C10_ExtractStagesChunks ==
    [][/\ \A w \in Workers :
             (wk[w].pc = "ex_commit" /\ wk'[w].pc = "ex_enqueue") =>
                /\ Len(docs') = Len(docs) + chunks[wk[w].id]
                /\ SubSeq(docs', 1, Len(docs)) = docs
                /\ \A x \in (Len(docs) + 1)..Len(docs') :
                      /\ docs'[x].file_id = wk[w].id
                      /\ docs'[x].status = "PENDING"
                      /\ docs'[x].embedding = NULL
                /\ fileStatus'[wk[w].id] = "CHUNKED"
       /\ (JobEnds("extract_file") /\ last'.raised = "none") =>
             /\ \E w \in Workers : wk[w].pc = "ex_enqueue" /\ wk'[w].pc = "idle"
             /\ queue' = queue (+) SetToBag({Job("embed_documents", last'.table, last'.id)})
             /\ docs' = docs
             /\ fileStatus' = fileStatus]_vars

C10_Witness ==
    /\ last.task = "extract_file"
    /\ last.raised = "none"
    /\ chunks[last.id] = 2
    /\ Cardinality(DocsOfFile(docs, last.id)) = 2
    /\ fileStatus[last.id] = "CHUNKED"
    /\ CopiesIn(Job("embed_documents", last.table, last.id), queue) = 1

\* C11: when extract_file fails while loading, converting, chunking or staging,
\* it persists File.status = CHUNK_FAILED and re-raises the error; and it sets
\* CHUNK_FAILED only then, not for a failure after the chunks were committed
\* (on a first delivery the file is CHUNKED exactly when that commit is done).
C11_ChunkFailedAndReraised ==
    [][(JobEnds("extract_file") /\ last'.raised # "none") =>
          /\ last'.raised = "original"
          /\ fileStatus'[last'.id] = "CHUNK_FAILED"
          /\ redelivered = 0 => fileStatus[last'.id] # "CHUNKED"]_vars

\* C12: after a first execution of extract_file ends, either every chunk of
\* the file is a document and File.status is CHUNKED, or File.status is
\* CHUNK_FAILED and the file has no document.
C12_StagingAllOrNothing ==
    (/\ last.task = "extract_file"
     /\ redelivered = 0
     /\ \A w \in Workers : wk[w].pc = "idle") =>
        LET f == last.id
            n == Cardinality(DocsOfFile(docs, f))
        IN \/ fileStatus[f] = "CHUNKED" /\ n = chunks[f] /\ last.raised = "none"
           \/ fileStatus[f] = "CHUNK_FAILED" /\ n = 0 /\ last.raised # "none"

\* an execution of extract_file has committed all the chunks of file f and
\* moved the file out of UPLOADED
Extracted(fs, ds, f) ==
    /\ fs[f] # "UPLOADED"
    /\ Cardinality(DocsOfFile(ds, f)) >= chunks[f]

\* the file an embedding job (embed_documents or embed_doc) works for
FileOfJob(ds, j) ==
    IF j.task = "embed_documents" THEN j.id
    ELSE IF j.id \in 1..Len(ds) THEN ds[j.id].file_id ELSE 0

EmbeddingTasks == {"embed_documents", "embed_doc"}

\* C13: an embed_documents job is enqueued only by extract_file after its
\* commit (on a first delivery the file is then CHUNKED with exactly its
\* chunks as documents), an embed_doc job only by embed_documents, and
\* whenever an embedding job of a file is queued or running, all chunks of
\* the file are committed and the file has left UPLOADED.
C13_ExtractionPrecedesEmbedding ==
    [][/\ \A j \in BagToSet(queue') :
             (j.task \in EmbeddingTasks /\ CopiesIn(j, queue') > CopiesIn(j, queue)) =>
                 /\ FileOfJob(docs, j) \in FileIds
                 /\ Extracted(fileStatus, docs, FileOfJob(docs, j))
                 /\ j.task = "embed_documents" =>
                        /\ \E w \in Workers : /\ wk[w].pc = "ex_enqueue"
                                              /\ wk[w].id = j.id
                                              /\ wk'[w].pc = "idle"
                        /\ redelivered = 0 =>
                              /\ fileStatus[j.id] = "CHUNKED"
                              /\ Cardinality(DocsOfFile(docs, j.id)) = chunks[j.id]
                 /\ j.task = "embed_doc" => JobEnds("embed_documents")
       /\ \A j \in BagToSet(queue') :
             j.task \in EmbeddingTasks =>
                 /\ FileOfJob(docs', j) \in FileIds
                 /\ Extracted(fileStatus', docs', FileOfJob(docs', j))
       /\ \A w \in Workers :
             wk'[w].task = "embed_doc" =>
                 /\ wk'[w].id \in 1..Len(docs')
                 /\ Extracted(fileStatus', docs', docs'[wk'[w].id].file_id)]_vars

\* two embed_doc jobs of a file with two chunks run side by side
C13_Witness ==
    /\ chunks[1] = 2
    /\ \A w \in Workers : wk[w].task = "embed_doc" /\ wk[w].file = 1
    /\ wk[1].id # wk[2].id
    /\ fileStatus[1] = "CHUNKED"

\* the statuses from which the specification lets a retry re-enter the pipeline
FailureStatus == {"CHUNK_FAILED", "FAILED", "EMBEDDING_PARTIAL_FAILED"}

\* the transitions of the file state machine
AllowedTransitions ==
    {<<"UPLOADED", "CHUNKED">>, <<"CHUNKED", "EMBEDDING">>,
     <<"EMBEDDING", "SUCCESS">>, <<"EMBEDDING", "EMBEDDING_PARTIAL_FAILED">>,
     <<"UPLOADED", "CHUNK_FAILED">>, <<"CHUNKED", "CHUNK_FAILED">>}
        \cup (FailureStatus \X {"CHUNKED", "EMBEDDING"})

\* C14: File.status changes only along UPLOADED -> CHUNKED -> EMBEDDING ->
\* {SUCCESS, EMBEDDING_PARTIAL_FAILED}, the chunk failure to CHUNK_FAILED and
\* the re-entry from a failure status into CHUNKED or EMBEDDING; so SUCCESS is
\* reached only from EMBEDDING and no file returns to UPLOADED.
C14_StatusStateMachine ==
    [][\A f \in FileIds :
          fileStatus'[f] # fileStatus[f] =>
              <<fileStatus[f], fileStatus'[f]>> \in AllowedTransitions]_vars

\* C15: a retry request for a file is accepted only when the status of the
\* file is in the allow-list; otherwise it is rejected with an error that
\* names the allow-list, and the status and the documents of the file, and
\* the broker queue, are left unchanged.
C15_RetryAllowList ==
    [][JobEnds("retry_file") =>
          IF fileStatus[last'.id] \in RetryableStatuses
          THEN last'.raised = "none"
          ELSE /\ last'.raised = "FileStatusNotRetryableError"
               /\ last'.retryable_statuses = RetryableStatuses
               /\ fileStatus' = fileStatus
               /\ docs' = docs
               /\ queue' = queue]_vars

\* a retry of a file that completed successfully was rejected
C15_Witness ==
    /\ last.task = "retry_file"
    /\ last.raised = "FileStatusNotRetryableError"
    /\ last.retryable_statuses = RetryableStatuses
    /\ fileStatus[last.id] = "SUCCESS"
    /\ queue = EmptyBag

\* C16: the table-name validation accepts a string if and only if it is not
\* empty and all its characters are in [A-Za-z0-9_].
C16_ValidationAcceptsExactlyWordStrings ==
    (probe.fn = "validate" /\ probe.out # "pending") =>
        (probe.out = "accepted" <=>
            /\ Len(probe.arg) > 0
            /\ \A i \in 1..Len(probe.arg) : probe.arg[i] \in WordChars)

\* a valid table name: not empty, all characters in [A-Za-z0-9_]
IsWordString(s) == Len(s) > 0 /\ \A i \in 1..Len(s) : s[i] \in WordChars

\* the call of caller c returns or raises in this step
CallEnds(c) == call[c].pc # "idle" /\ call'[c].pc = "idle"

\* C17: create_vector_table, get_vector_model and drop_vector_table validate
\* the name first: called with an invalid name, the first step of the call
\* raises the validation error and changes neither a cache nor a table.
C17_InvalidNameFailsFast ==
    [][\A c \in Callers :
          (/\ call[c].pc = "begin"
           /\ call'[c] # call[c]
           /\ ~IsWordString(call[c].name)) =>
              /\ CallEnds(c)
              /\ ret'.result = "ValueError: Invalid table name"
              /\ store' = store
              /\ tables' = tables]_vars

\* C19: a create_vector_table for a valid name returns successfully whether
\* or not the table exists, also when another create for the name runs
\* concurrently: it never fails with an already-exists error (the database
\* being unreachable is no such failure).
C19_ConcurrentCreateSucceeds ==
    [][\A c \in Callers :
          (CallEnds(c) /\ call[c].op = "create" /\ IsWordString(call[c].name)) =>
              ret'.result \in {"ok", "DBError"}]_vars

\* C20: a get_vector_model for a valid name whose table does not exist fails
\* with the not-found error (calls run one at a time, so the table is absent
\* during the whole call).
C20_ResolveOfMissingTableFails ==
    [][\A c \in Callers :
          (/\ CallEnds(c)
           /\ call[c].op = "get"
           /\ IsWordString(call[c].name)
           /\ tables[call[c].name] = 0) =>
              ret'.result \in {"ValueError: Table does not exist", "DBError"}]_vars

\* C18: the table names of two different collection ids differ, and the
\* table name of every collection id consists of characters of [A-Za-z0-9_]
\* only and passes the table-name validation.
C18_TableNameInjectiveAndSafe ==
    (probe.fn = "table_name" /\ probe.done) =>
        /\ probe.arg[1] # probe.arg[2] => probe.out[1] # probe.out[2]
        /\ \A k \in 1..2 :
              /\ \A i \in 1..Len(probe.out[k]) : probe.out[k][i] \in WordChars
              /\ ValidateTableName(probe.out[k]) = "accepted"

\* C21: a drop_vector_table for a valid name whose table does not exist
\* changes no table, leaves no cache entry for the name, changes nothing at
\* all when there was no cache entry, and returns without an error of its own
\* (the database being unreachable aside); and a drop that returned leaves
\* neither the table nor a cache entry, the state a second drop keeps.
C21_DropIdempotent ==
    [][\A c \in Callers :
          (/\ call[c].op = "drop"
           /\ call'[c] # call[c]
           /\ IsWordString(call[c].name)) =>
              LET name == call[c].name
                  i == call[c].inst
              IN /\ tables[name] = 0 =>
                       /\ tables' = tables
                       /\ name \notin CacheKeys(store'[i].cache)
                       /\ name \notin CacheKeys(store[i].cache) => store' = store
                       /\ CallEnds(c) => ret'.result \in {"ok", "DBError"}
                 /\ (CallEnds(c) /\ ret'.result = "ok") =>
                       /\ tables'[name] = 0
                       /\ name \notin CacheKeys(store'[i].cache)]_vars

\* a drop has returned successfully in a database that never held a table
C21_Witness ==
    /\ ret.op = "drop"
    /\ ret.result = "ok"
    /\ \A i \in Instances : store[i].metadata = {}
    /\ \A n \in TableNames : tables[n] = 0

\* C22: whenever no call of a store is in progress, a store caches a handle
\* for a valid name only if the table of that name exists.
C22_CacheConsistentWithSchema ==
    (\A c \in Callers : call[c].pc = "idle") =>
        \A i \in Instances : \A n \in CacheKeys(store[i].cache) :
            IsWordString(n) => tables[n] # 0

\* C23: a get_vector_model for a valid name that hits the cache returns the
\* cached handle in its first step, before any database round-trip; on a
\* miss for an existing table it returns (the database being unreachable
\* aside) the handle creation produced, of the same name and dimension, and
\* that handle is in the cache again.
C23_ResolveRebuildsHandle ==
    [][\A c \in Callers :
          (CallEnds(c) /\ call[c].op = "get" /\ IsWordString(call[c].name)) =>
              LET name == call[c].name
                  i == call[c].inst
                  cached == CacheValue(store[i].cache, name)
              IN /\ cached # None =>
                       /\ call[c].pc = "begin"
                       /\ ret'.result = "ok"
                       /\ ret'.value = cached
                       /\ ~ret'.db
                       /\ tables' = tables
                 /\ (cached = None /\ tables[name] # 0) =>
                       /\ ret'.result \in {"ok", "DBError"}
                       /\ ret'.result = "ok" =>
                             /\ ret'.value = Handle(name, DimensionOf(name))
                             /\ CacheValue(store'[i].cache, name) = ret'.value]_vars

\* store 1 created two tables, its cache of one entry lost the first one to
\* the second, and a get of the first went to the database and returned the
\* handle, which is cached again
C23_Witness ==
    /\ ret.op = "get"
    /\ ret.db
    /\ ret.result = "ok"
    /\ ret.value = Handle(<<"t", "1">>, 2)
    /\ tables[<<"t", "1">>] = 2
    /\ tables[<<"t", "2">>] = 3
    /\ store[2].metadata = {}
    /\ {<<"t", "1">>, <<"t", "2">>} \subseteq store[1].metadata
    /\ CacheKeys(store[1].cache) = {<<"t", "1">>}

\* the keys of a cache in recency order, none of them twice
NoDuplicateKeys(c) == \A a, b \in 1..Len(c) : c[a].key = c[b].key => a = b

C25_SearchRanksAndFilters ==
    (probe.fn = "similarity_search" /\ probe.done /\ probe.top_k > 0) =>
        LET res == probe.out.rows
            returned == {res[i].id : i \in 1..Len(res)}
            Sim(r) == One - probe.rows[r]
        IN /\ probe.out.result = "ok"
           /\ Len(res) <= probe.top_k
           /\ \A a, b \in 1..Len(res) :
                 a < b => res[a].similarity_score >= res[b].similarity_score
           /\ \A i \in 1..Len(res) : res[i].similarity_score = Sim(res[i].id)
           /\ probe.threshold # << >> =>
                 /\ \A r \in returned : Sim(r) >= probe.threshold[1]
                 /\ \A r \in DOMAIN probe.rows \ returned :
                       Sim(r) >= probe.threshold[1] =>
                           \A x \in returned : Sim(x) >= Sim(r)

\* C26: a similarity search with a top_k of zero or less ends with an error
\* and does not execute the query.
C26_NonPositiveTopKRejected ==
    (probe.fn = "similarity_search" /\ probe.done /\ probe.top_k <= 0) =>
        /\ probe.out.result # "ok"
        /\ ~probe.out.executed

\* a request of the given operation of the service ends in this step; its
\* response is resp'
RequestEnds(op) == resp' # resp /\ resp'.op = op

\* C27: a similarity search for a collection id that does not exist fails
\* with CollectionNotFoundException before the embedding model is called or
\* the vector store is asked for the table; for an existing collection
\* whose vector table is missing it ends with an error, not with a result.
C27_SearchFailsOnMissingCollectionOrTable ==
    [][RequestEnds("similarity_search") =>
          LET c == resp'.id
          IN /\ collections[c] # "exists" =>
                   /\ resp'.result = "CollectionNotFoundException"
                   /\ ~resp'.embedded
                   /\ ~resp'.accessed
                   /\ store' = store
             /\ (collections[c] = "exists" /\ tables[CollectionTable(c)] = 0) =>
                   resp'.result \in {"ValueError", "RuntimeError"}]_vars

\* a search of an existing collection whose table is gone has ended with an
\* error
C27_Witness ==
    /\ resp.op = "similarity_search"
    /\ resp.result \in {"ValueError", "RuntimeError"}
    /\ collections[resp.id] = "exists"
    /\ tables[CollectionTable(resp.id)] = 0
    /\ resp.embedded

\* the file ids with a row in collection c
FilesOf(fs, c) == {f \in FileIds : fs[f] = c}

\* C28: deleting an existing collection returns exactly the storage paths of
\* its files, removes its Collection row and its File rows and no other row,
\* and drops its vector table, so that a resolve of its table name by any
\* store fails with not-found afterwards; deleting a collection id that does
\* not exist fails with CollectionNotFoundException and changes nothing.
C28_DeleteCollectionCascades ==
    [][RequestEnds("delete_collection") =>
          LET c == resp'.id
              name == CollectionTable(c)
          IN /\ (collections[c] = "exists" /\ resp'.result = "ok") =>
                   /\ resp'.paths = {PathOf(c, f) : f \in FilesOf(files, c)}
                   /\ collections' = [collections EXCEPT ![c] = "gone"]
                   /\ files' = [f \in FileIds |->
                                   IF files[f] = c THEN 0 ELSE files[f]]
                   /\ tables' = [tables EXCEPT ![name] = 0]
                   /\ \A i \in Instances :
                         GetVectorModel(store'[i], tables', name, FALSE).result
                             = "ValueError: Table does not exist"
             /\ collections[c] # "exists" =>
                   /\ resp'.result = "CollectionNotFoundException"
                   /\ UNCHANGED <<collections, files, tables, store>>]_vars

Ids(s) == {s[i] : i \in 1..Len(s)}
FailedIds(s) == {s[i].id : i \in 1..Len(s)}

\* C30 as stated: after a batch delete by ids, every id in deleted_ids has
\* its File row removed and every id in failed_ids keeps its File row; the
\* rows of no other file change.
C30_BatchDeleteAsStated ==
    [][(RequestEnds("delete_collection_files") /\ resp'.result = "ok") =>
          /\ \A f \in Ids(resp'.deleted) : files[f] = resp'.id /\ files'[f] = 0
          /\ \A f \in FailedIds(resp'.failed) : files'[f] = files[f]
          /\ \A f \in FileIds \ Ids(resp'.deleted) : files'[f] = files[f]]_vars

\* C30 amended: after a batch delete by ids, every id in deleted_ids has its
\* File row removed, whatever failed after it; every id in failed_ids that
\* is not also in deleted_ids keeps its File row and carries a message; the
\* rows of no other file change.
C30_BatchDeletePerItem ==
    [][(RequestEnds("delete_collection_files") /\ resp'.result = "ok") =>
          /\ \A f \in Ids(resp'.deleted) : files[f] = resp'.id /\ files'[f] = 0
          /\ \A f \in FailedIds(resp'.failed) \ Ids(resp'.deleted) :
                files'[f] = files[f]
          /\ \A i \in 1..Len(resp'.failed) :
                resp'.failed[i].message \in {"not found", "Database error"}
          /\ \A f \in FileIds \ Ids(resp'.deleted) : files'[f] = files[f]]_vars

\* a batch delete has deleted one file and failed on another one, whose row
\* is still there
C30_Witness ==
    /\ resp.op = "delete_collection_files"
    /\ resp.result = "ok"
    /\ Len(resp.deleted) = 1
    /\ Len(resp.failed) = 1
    /\ resp.failed[1].message = "Database error"
    /\ files[resp.deleted[1]] = 0
    /\ files[resp.failed[1].id] = resp.id

\* C31: after a file is deleted, by id or by the delete-all option of its
\* collection, no document with the file_id of that file is left in the
\* vector table of the collection, and the documents of other files are as
\* before.
C31_DeleteFileDeletesItsDocuments ==
    [][(RequestEnds("delete_collection_files") /\ resp'.result = "ok") =>
          /\ \A f \in Ids(resp'.deleted) : DocsOfFile(docs', f) = {}
          /\ SelectSeq(docs, LAMBDA r : r.file_id \notin Ids(resp'.deleted))
                = SelectSeq(docs', LAMBDA r : r.file_id \notin Ids(resp'.deleted))]_vars

\* C32: resolving an embedding-model client ends with ValueError, with no
\* embedding requested, when the provider name is not google, azure_openai
\* or openai, when the API key of the provider is not configured, or when
\* azure_openai is chosen with no endpoint in the metadata; for every other
\* input it returns the client of the provider.
C32_Misconfigured ==
    \/ probe.provider \notin {"google", "azure_openai", "openai"}
    \/ probe.keys[probe.provider] = ""
    \/ /\ probe.provider = "azure_openai"
       /\ (~probe.metadata.present \/ probe.metadata.endpoint \in {"None", ""})

C32_EmbeddingModelResolution ==
    (probe.fn = "embedding_model" /\ probe.done) =>
        /\ ~probe.out.embedded
        /\ C32_Misconfigured => probe.out.result = "ValueError"
        /\ ~C32_Misconfigured =>
              probe.out.result = "ok" /\ probe.out.client = probe.provider

\* azure_openai with its key configured and an empty endpoint was refused
C32_Witness ==
    /\ probe.fn = "embedding_model"
    /\ probe.done
    /\ probe.provider = "azure_openai"
    /\ probe.keys["azure_openai"] = "key"
    /\ probe.metadata.present
    /\ probe.metadata.endpoint = ""
    /\ probe.out.result = "ValueError"

\* C33: in every reachable state of the pipeline, redelivered and failing
\* jobs included, a document has a stored embedding if and only if its
\* status is SUCCESS.
C33_EmbeddingIffSuccess ==
    \A d \in 1..Len(docs) :
        docs[d].embedding # NULL <=> docs[d].status = "SUCCESS"

\* C34: under fair execution of the enqueued jobs, the file whose extraction
\* succeeded (status CHUNKED) eventually reaches SUCCESS or
\* EMBEDDING_PARTIAL_FAILED, for every number of chunks, zero included.
C34_ChunkedFileSettles ==
    (fileStatus[1] = "CHUNKED") ~>
        (fileStatus[1] \in {"SUCCESS", "EMBEDDING_PARTIAL_FAILED"})

\* C35: after any sequence of get, set, drop and clear on an LRUCache the
\* number of stored entries is at most max_size, and a get(k) that follows
\* a set(k, v) with no operation in between returns v when max_size >= 1.
C35_BoundedAndReadsOwnWrite ==
    [][/\ Len(probe'.cache) <= probe'.max_size
       /\ (/\ probe.op = "set"
           /\ probe.max_size >= 1
           /\ probe'.op = "get"
           /\ probe'.key = probe.key) => probe'.out = probe.arg]_vars

\* a cache at its max_size of 2 has answered a get with the value set just
\* before, which took the place of another entry
C35_Witness ==
    /\ probe.fn = "LRUCache"
    /\ probe.max_size = 2
    /\ Len(probe.cache) = 2
    /\ Len(probe.touched) = 3
    /\ probe.prev = "set"
    /\ probe.op = "get"
    /\ probe.out = Handle(probe.key, 3)
    /\ probe.cache[2] = [key |-> probe.key, value |-> probe.out]

\* the stored key that was touched least recently
C36_LeastRecentlyTouched(h, stored) == SelectSeq(h, LAMBDA x : x \in stored)[1]

\* C36: a set of a new key on a full LRUCache evicts exactly the entry that
\* was touched least recently, a successful get and a set both being a
\* touch; a set of a stored key replaces its value and evicts nothing; a get
\* of an absent key leaves the contents and the recency order as they were.
C36_EvictsLeastRecentlyTouched ==
    [][LET c == probe.cache
           d == probe'.cache
           k == probe'.key
           stored == CacheKeys(c)
           old == C36_LeastRecentlyTouched(probe.touched, stored)
       IN /\ (/\ probe'.op = "set"
              /\ k \notin stored
              /\ probe.max_size >= 1
              /\ Len(c) = probe.max_size) =>
                 /\ CacheKeys(d) = (stored \ {old}) \cup {k}
                 /\ CacheValue(d, k) = probe'.arg
                 /\ \A x \in stored \ {old} : CacheValue(d, x) = CacheValue(c, x)
          /\ (probe'.op = "set" /\ k \in stored) =>
                 /\ CacheKeys(d) = stored
                 /\ CacheValue(d, k) = probe'.arg
                 /\ \A x \in stored \ {k} : CacheValue(d, x) = CacheValue(c, x)
          /\ (probe'.op = "get" /\ k \notin stored) =>
                 /\ d = c
                 /\ probe'.out = None]_vars

\* a full cache of two entries whose older entry was touched by a get has
\* evicted the other entry for a new key
C36_Witness ==
    /\ probe.fn = "LRUCache"
    /\ probe.max_size = 2
    /\ probe.prev = "get"
    /\ probe.op = "set"
    /\ probe.touched = << <<"t", "2">>, <<"t", "1">>, <<"t", "-", "1">> >>
    /\ CacheKeys(probe.cache) = {<<"t", "1">>, <<"t", "-", "1">>}

\* C37: a cosine similarity search returns no document whose embedding is
\* NULL, with or without a threshold.
C37_NoNullEmbeddingReturned ==
    (probe.fn = "cosine_similarity_search" /\ probe.done) =>
        \A i \in 1..Len(probe.out.rows) :
            probe.rows[probe.out.rows[i].id] # SqlNull

\* how often x occurs in the list s
Count(s, x) == Cardinality({i \in 1..Len(s) : s[i] = x})

\* the ids of a list of failures, in their order
FailedList(s) == [i \in 1..Len(s) |-> s[i].id]

\* a batch delete by ids (all = false) returns in this step
BatchDeleteByIds ==
    /\ RequestEnds("delete_collection_files")
    /\ resp'.result = "ok"
    /\ ~resp'.all

\* C38 as stated: for a batch delete by ids, deleted_ids and failed_ids are
\* disjoint and together hold every requested id as often as it was
\* requested, whatever the request list.
C38_PartitionAsStated ==
    [][BatchDeleteByIds =>
          /\ Ids(resp'.deleted) \cap FailedIds(resp'.failed) = {}
          /\ \A f \in FileIds :
                Count(resp'.deleted, f) + Count(FailedList(resp'.failed), f)
                    = Count(resp'.ids, f)]_vars

\* C38 amended: for a batch delete by ids, deleted_ids and failed_ids
\* together hold every requested id as often as it was requested, whatever
\* the request list; they are disjoint when no id is requested twice, and an
\* id requested more than once is in deleted_ids at most once.
C38_PartitionOfDistinctIds ==
    [][BatchDeleteByIds =>
          /\ (\A f \in FileIds : Count(resp'.ids, f) <= 1) =>
                Ids(resp'.deleted) \cap FailedIds(resp'.failed) = {}
          /\ \A f \in FileIds :
                /\ Count(resp'.deleted, f) + Count(FailedList(resp'.failed), f)
                      = Count(resp'.ids, f)
                /\ Count(resp'.deleted, f) <= 1]_vars

\* a batch delete has deleted a file of the collection and has failed on a
\* file that belongs to the other collection
C38_Witness ==
    /\ resp.op = "delete_collection_files"
    /\ resp.result = "ok"
    /\ Len(resp.deleted) = 1
    /\ Len(resp.failed) = 1
    /\ ~resp.all
    /\ resp.failed[1].message = "not found"
    /\ resp.failed[1].id # resp.deleted[1]
    /\ files[resp.failed[1].id] \notin {0, resp.id}

\* C39: whatever repository operation is called with a table name that is
\* not a non-empty string of [A-Za-z0-9_], no statement with that name in it
\* is executed.
C39_InvalidNameNeverInSql ==
    (probe.fn = "repository" /\ probe.done) =>
        (~(/\ Len(probe.name) > 0
           /\ \A i \in 1..Len(probe.name) : probe.name[i] \in WordChars)
            => probe.out.sql = {})

====
